---- MODULE Spec2Model ----
(***************************************************************************)
(* Model of the image-curation pipeline of learning-portuguese             *)
(* (src/image-curator): the SQLite image library (ImageLibrary), the batch *)
(* runner (BatchCurator) and the manual overrides of the websocket server. *)
(*                                                                         *)
(* Scores are floats in the code; the model holds them in tenths, so the   *)
(* neutral 0.5 is 5, a 0-10 average of 7.0 is 70 and a 0-40 total of 28    *)
(* is 280.                                                                 *)
(***************************************************************************)
EXTENDS Integers, Sequences, FiniteSets, TLC

VARIABLES
    images,     \* rows of table images (committed database state)
    history,    \* rows of table image_history, in insertion order (committed)
    seq,        \* sqlite_sequence of images: the largest id ever assigned
    call,       \* the store operation called last, with its arguments
    ret,        \* what that call returned, or that it raised
    rowcount,   \* rows of images / image_history written by that call
    conn,       \* the open connection of a select_image in progress, or the
                \* callers of get_next_queue_item and their connections
    pre,        \* the committed database when that select_image was called
    pick_in,    \* process_word: the scored results of one word and the thresholds
    pick_out,   \* process_word: best_result, or that none was picked
    cfg,        \* BatchConfig of the batch runs
    vocabulary, \* the words given to BatchCurator.run, in order
    found,      \* per word: the images the providers return, each with what
                \* the vision model would answer for it
    cache,      \* ImageCache: per word the cached scored results
    queue,      \* rows of table curation_queue, and its AUTOINCREMENT counter
    batch,      \* the BatchCurator: position of run, progress, shutdown flag
    runs,       \* the runs that returned: their summary and the store they left
    budget,     \* manual and import operations still allowed by the bounds
    server,     \* CuratorWebSocketServer: is_running, is_paused, _curator_task
    limiter,    \* a RateLimiter, the clock and the callers of acquire
    raising,    \* the words for which search_and_evaluate raises an exception
    gate        \* the GPU as nvidia-smi shows it, and the callers waiting for it

pick_vars == <<pick_in, pick_out>>

batch_vars == <<cfg, vocabulary, found, cache, queue, batch, runs, budget>>

\* The variables no operation of the image library reads or writes.
\* The variables of the server, of the rate limiter and of the GPU gate, and
\* the failing searches.
other_vars == <<server, limiter, raising, gate>>

outside_store == <<pick_vars, batch_vars, other_vars>>

vars == <<images, history, seq, call, ret, rowcount, conn, pre, outside_store>>

----------------------------------------------------------------------------
(* Bounds of the model *)

MaxId == 2        \* add_image is called at most MaxId times
MaxHist == 3      \* image_history holds at most MaxHist rows

Words == {"w1", "w2"}
Urls == {"u1", "u2"}
Status == {"candidate", "selected", "rejected"}
Ids == 1..MaxId

NoCall == [op |-> "none"]

\* What a call returned: True or False, the id of a row, nothing yet, or an
\* exception.
RetBool(b) == [tag |-> "bool", val |-> b]
RetId(id) == [tag |-> "id", val |-> id]
Raised == [tag |-> "raised", val |-> "exception"]
NoRet == [tag |-> "none", val |-> "none"]

Closed == [state |-> "closed"]
NoPick == [tag |-> "none"]

NoGate == [tag |-> "none"]

\* The state of the batch variables in the specifications that run no batch.
\* CuratorWebSocketServer.__init__
NewServer ==
    [is_running |-> FALSE, is_paused |-> FALSE, curator |-> FALSE,
     _curator_task |-> "none", sent |-> "none"]   \* sent: the last broadcast of a handler

NoLimiter == [tag |-> "none"]

NoBatch ==
    /\ server = NewServer
    /\ limiter = NoLimiter
    /\ raising = {}
    /\ gate = NoGate
    /\ cfg = [tag |-> "none"]
    /\ vocabulary = <<>>
    /\ found = <<>>
    /\ cache = <<>>
    /\ queue = [entries |-> {}, seq |-> 0]
    /\ batch = [pc |-> "none"]
    /\ runs = <<>>
    /\ budget = 0

----------------------------------------------------------------------------
(* The database a connection works on: images, image_history and the      *)
(* AUTOINCREMENT counter.                                                   *)

Db(i, h, s) == [images |-> i, history |-> h, seq |-> s]

Committed == Db(images, history, seq)

Row(d, id) == CHOOSE r \in d.images : r.id = id

Exists(d, id) == \E r \in d.images : r.id = id

\* SELECT * FROM images WHERE word = ? AND status = 'selected'
SelectedOf(imgs, word) == {r \in imgs : r.word = word /\ r.status = "selected"}

\* ImageRecord as add_image receives it from its callers: no id, no local
\* path, not verified.
ImageRecord(word, url, status) ==
    [word |-> word, url |-> url, status |-> status,
     local_path |-> FALSE, manually_verified |-> FALSE]

\* A plain INSERT into a table without UNIQUE(word, url).
InsertPlain(d, rec) ==
    [d EXCEPT !.images = d.images \cup {[id |-> d.seq + 1] @@ rec}, !.seq = d.seq + 1]

\* INSERT OR REPLACE INTO images: a row that holds the same (word, url) is
\* deleted (UNIQUE(word, url), conflict resolution REPLACE), and the new row
\* takes a fresh AUTOINCREMENT id.
InsertOrReplace(d, rec) ==
    LET kept == {r \in d.images : ~(r.word = rec.word /\ r.url = rec.url)}
        id == d.seq + 1
    IN  [d EXCEPT !.images = kept \cup {[id |-> id] @@ rec}, !.seq = id]

\* The row r after SET <updates>; an update is a (column, value) pair.
Apply(r, upd) ==
    CASE upd.col = "status" -> [r EXCEPT !.status = upd.val]
      [] upd.col = "url" -> [r EXCEPT !.url = upd.val]
      [] upd.col = "local_path" -> [r EXCEPT !.local_path = upd.val]
      [] upd.col = "manually_verified" -> [r EXCEPT !.manually_verified = upd.val]
      [] OTHER -> r

\* UPDATE images SET ... WHERE id = ? would break UNIQUE(word, url):
\* sqlite3.IntegrityError.
Conflicts(d, id, upd) ==
    /\ Exists(d, id)
    /\ \E r \in d.images :
          /\ r.id # id
          /\ r.word = Apply(Row(d, id), upd).word
          /\ r.url = Apply(Row(d, id), upd).url

\* UPDATE images SET ... WHERE id = ?
UpdateWhereId(d, id, upd) ==
    [d EXCEPT !.images = {IF r.id = id THEN Apply(r, upd) ELSE r : r \in d.images}]

\* UPDATE images SET status = 'candidate' WHERE word = ? AND status = 'selected'
DemoteSelected(d, word) ==
    [d EXCEPT !.images =
        {IF r.word = word /\ r.status = "selected"
            THEN [r EXCEPT !.status = "candidate"] ELSE r : r \in d.images}]

\* DELETE FROM images WHERE id = ?
DeleteWhereId(d, id) ==
    [d EXCEPT !.images = {r \in d.images : r.id # id}]

\* INSERT INTO image_history (image_id, action, actor, details)
_log_history(d, image_id, action) ==
    [d EXCEPT !.history = Append(d.history, [image_id |-> image_id, action |-> action])]

\* Rows of images a statement sequence wrote: rows inserted, updated or deleted.
Matched(d, id) == IF Exists(d, id) THEN 1 ELSE 0

----------------------------------------------------------------------------
(* The bodies of the handlers of ImageLibrary, each run on one connection  *)
(* and committed by _get_connection when the body returns.                  *)

add_image_body(d, rec) ==
    _log_history(InsertOrReplace(d, rec), d.seq + 1, "created")

update_image_body(d, id, upd) ==
    _log_history(UpdateWhereId(d, id, upd), id, "updated")

\* select_image without its first UPDATE.
select_image_no_demotion(d, id) ==
    _log_history(
        UpdateWhereId(d, id, [col |-> "status", val |-> "selected"]), id, "selected")

select_image_body(d, id) ==
    _log_history(
        UpdateWhereId(DemoteSelected(d, Row(d, id).word), id,
                      [col |-> "status", val |-> "selected"]),
        id, "selected")

reject_image_body(d, id) ==
    _log_history(UpdateWhereId(d, id, [col |-> "status", val |-> "rejected"]),
                 id, "rejected")

verify_image_body(d, id) ==
    _log_history(UpdateWhereId(d, id, [col |-> "manually_verified", val |-> TRUE]),
                 id, "verified")

delete_image_body(d, id) ==
    DeleteWhereId(_log_history(d, id, "deleted"), id)

\* conn.commit() of _get_connection: the connection's work becomes the
\* committed database.
Commit(d) ==
    /\ images' = d.images
    /\ history' = d.history
    /\ seq' = d.seq

----------------------------------------------------------------------------
(* Inputs *)

Updates ==
    [col : {"status"}, val : Status]
        \cup [col : {"url"}, val : Urls]
        \cup [col : {"local_path"}, val : {TRUE}]

Idle == conn.state = "closed"

Room == Len(history) < MaxHist

----------------------------------------------------------------------------
(* Store operations, one action per handler *)

add_image(word, url, status) ==
    /\ Idle /\ Room
    /\ seq < MaxId
    /\ Commit(add_image_body(Committed, ImageRecord(word, url, status)))
    /\ call' = [op |-> "add_image", word |-> word, url |-> url, status |-> status]
    /\ ret' = RetId(seq + 1)
    /\ rowcount' = [images |-> 1, history |-> 1]
    /\ UNCHANGED <<conn, pre, outside_store>>

\* update_image with an empty dict returns False before it opens a connection.
update_image_empty(id) ==
    /\ Idle
    /\ call' = [op |-> "update_image", image_id |-> id, updates |-> "empty"]
    /\ ret' = RetBool(FALSE)
    /\ rowcount' = [images |-> 0, history |-> 0]
    /\ UNCHANGED <<images, history, seq, conn, pre, outside_store>>

update_image(id, upd) ==
    /\ Idle /\ Room
    /\ call' = [op |-> "update_image", image_id |-> id, updates |-> upd]
    /\ IF Conflicts(Committed, id, upd)
          THEN /\ ret' = Raised
               /\ rowcount' = [images |-> 0, history |-> 0]
               /\ UNCHANGED <<images, history, seq>>
          ELSE /\ Commit(update_image_body(Committed, id, upd))
               /\ ret' = RetBool(TRUE)
               /\ rowcount' = [images |-> Matched(Committed, id), history |-> 1]
    /\ UNCHANGED <<conn, pre, outside_store>>

\* select_image without the early return on a missing row.
select_image_unchecked(id) ==
    /\ Idle /\ Room
    /\ call' = [op |-> "select_image", image_id |-> id]
    /\ Commit(_log_history(
          UpdateWhereId(
              IF Exists(Committed, id)
                 THEN DemoteSelected(Committed, Row(Committed, id).word)
                 ELSE Committed,
              id, [col |-> "status", val |-> "selected"]),
          id, "selected"))
    /\ ret' = RetBool(TRUE)
    /\ rowcount' = [images |-> Matched(Committed, id), history |-> 1]
    /\ UNCHANGED <<conn, pre, outside_store>>

\* The call of select_image by any caller: what it does to the library.
select_image_call(id) ==
    /\ call' = [op |-> "select_image", image_id |-> id]
    /\ IF ~Exists(Committed, id)
          THEN /\ ret' = RetBool(FALSE)
               /\ rowcount' = [images |-> 0, history |-> 0]
               /\ UNCHANGED <<images, history, seq>>
          ELSE /\ Commit(select_image_body(Committed, id))
               /\ ret' = RetBool(TRUE)
               /\ rowcount' =
                    [images |-> Cardinality(
                        SelectedOf(images, Row(Committed, id).word) \cup {Row(Committed, id)}),
                     history |-> 1]

select_image(id) ==
    /\ Idle
    /\ Exists(Committed, id) => Room
    /\ select_image_call(id)
    /\ UNCHANGED <<conn, pre, outside_store>>

reject_image(id) ==
    /\ Idle /\ Room
    /\ call' = [op |-> "reject_image", image_id |-> id]
    /\ Commit(reject_image_body(Committed, id))
    /\ ret' = RetBool(TRUE)
    /\ rowcount' = [images |-> Matched(Committed, id), history |-> 1]
    /\ UNCHANGED <<conn, pre, outside_store>>

verify_image(id) ==
    /\ Idle /\ Room
    /\ call' = [op |-> "verify_image", image_id |-> id]
    /\ Commit(verify_image_body(Committed, id))
    /\ ret' = RetBool(TRUE)
    /\ rowcount' = [images |-> Matched(Committed, id), history |-> 1]
    /\ UNCHANGED <<conn, pre, outside_store>>

delete_image(id) ==
    /\ Idle /\ Room
    /\ call' = [op |-> "delete_image", image_id |-> id]
    /\ Commit(delete_image_body(Committed, id))
    /\ ret' = RetBool(TRUE)
    /\ rowcount' = [images |-> Matched(Committed, id), history |-> 1]
    /\ UNCHANGED <<conn, pre, outside_store>>

----------------------------------------------------------------------------
(* Specification of the store: any sequence of its mutating operations *)

Init ==
    /\ images = {}
    /\ history = <<>>
    /\ seq = 0
    /\ call = NoCall
    /\ ret = NoRet
    /\ rowcount = [images |-> 0, history |-> 0]
    /\ conn = Closed
    /\ pre = Db({}, <<>>, 0)
    /\ pick_in = NoPick
    /\ pick_out = NoPick
    /\ NoBatch

Next ==
    \/ \E w \in Words, u \in Urls, s \in Status : add_image(w, u, s)
    \/ \E id \in Ids : update_image_empty(id)
    \/ \E id \in Ids, upd \in Updates : update_image(id, upd)
    \/ \E id \in Ids : select_image(id)
    \/ \E id \in Ids : reject_image(id)
    \/ \E id \in Ids : verify_image(id)
    \/ \E id \in Ids : delete_image(id)

Spec == Init /\ [][Next]_vars

----------------------------------------------------------------------------
(* select_image statement by statement, with interruption.                 *)
(* sqlite3.connect opens the connection in the default (deferred)          *)
(* isolation level: the first UPDATE begins a transaction implicitly, and  *)
(* nothing the connection writes is in the database file before            *)
(* conn.commit().  An exception runs conn.rollback(); after a crash SQLite *)
(* rolls the journal back when the file is opened next.                    *)

\* What the database file holds while a connection has done uncommitted work.
DurableAutocommit(committed, working) == working

Durable(committed, working) == committed

\* The statements of select_image in order.
StatementAt(c) ==
    CASE c.pc = "demote" -> DemoteSelected(c.d, c.word)
      [] c.pc = "promote" ->
            UpdateWhereId(c.d, c.image_id, [col |-> "status", val |-> "selected"])
      [] c.pc = "log" -> _log_history(c.d, c.image_id, "selected")

PcAfter(pc) ==
    CASE pc = "demote" -> "promote"
      [] pc = "promote" -> "log"
      [] pc = "log" -> "commit"

\* with self._get_connection() as conn: SELECT word FROM images WHERE id = ?
select_begin(id) ==
    /\ Idle
    /\ call' = [op |-> "select_image", image_id |-> id, at |-> "lookup"]
    /\ rowcount' = [images |-> 0, history |-> 0]
    /\ IF ~Exists(Committed, id)
          THEN /\ ret' = RetBool(FALSE)
               /\ UNCHANGED <<conn, pre>>
          ELSE /\ Room
               /\ ret' = NoRet
               /\ pre' = Committed
               /\ conn' = [state |-> "open", pc |-> "demote", image_id |-> id,
                           word |-> Row(Committed, id).word, d |-> Committed]
    /\ UNCHANGED <<images, history, seq, outside_store>>

\* The next conn.execute of select_image.
select_statement ==
    /\ conn.state = "open"
    /\ conn.pc \in {"demote", "promote", "log"}
    /\ conn' = [conn EXCEPT !.d = StatementAt(conn), !.pc = PcAfter(conn.pc)]
    /\ Commit(Durable(Committed, StatementAt(conn)))
    /\ UNCHANGED <<call, ret, rowcount, pre, outside_store>>

\* return True: the with block ends and _get_connection commits.
select_commit ==
    /\ conn.state = "open"
    /\ conn.pc = "commit"
    /\ Commit(conn.d)
    /\ conn' = Closed
    /\ ret' = RetBool(TRUE)
    /\ rowcount' =
          [images |-> Cardinality(SelectedOf(pre.images, conn.word)
                                  \cup {Row(pre, conn.image_id)}),
           history |-> 1]
    /\ UNCHANGED <<call, pre, outside_store>>

\* An exception or a crash while the connection is open: the uncommitted
\* work is rolled back and the call does not return.
select_interrupted ==
    /\ conn.state = "open"
    /\ conn' = Closed
    /\ ret' = Raised
    /\ call' = [call EXCEPT !.at = conn.pc]
    /\ UNCHANGED <<images, history, seq, rowcount, pre, outside_store>>

NextTx ==
    \/ \E w \in Words, u \in Urls, s \in Status : add_image(w, u, s)
    \/ \E id \in Ids : select_begin(id)
    \/ select_statement
    \/ select_commit
    \/ select_interrupted

SpecTx == Init /\ [][NextTx]_vars

----------------------------------------------------------------------------
(* process_word: the choice of the best candidate.                         *)
(* A result is a pair (image, score); the model keeps the place of the     *)
(* image in the results as its identity.                                   *)

MaxCands == 3     \* a word has at most MaxCands scored results

min_score == 28
min_relevance == 7

\* Scores in tenths: 0.3, 0.5 and 1.0 as the scorer gives them, 0-10 averages
\* and values above 10, which process_word takes for 0-40 totals.
ScoreSet == {3, 5, 10, 60, 70, 80, 110, 300}

\* Thresholds in whole points, as BatchConfig holds them.
MinScores == {2, 20, min_score}
MinRelevances == {1, min_relevance}

RECURSIVE SeqsUpTo(_, _)
SeqsUpTo(S, n) ==
    IF n = 0 THEN {<<>>}
    ELSE LET shorter == SeqsUpTo(S, n - 1)
         IN  shorter \cup {Append(q, x) : q \in {t \in shorter : Len(t) = n - 1}, x \in S}

\* A conversion that takes the score as a fraction of one: ten times the
\* score is the 0-10 average.
scored_from_fraction(pos, score) ==
    [pos |-> pos,
     score_40 |-> score * 40,
     relevance |-> score * 10]

\* score_40 = score * 4 if score <= 10 else score; estimated_relevance = score
Scored(pos, score) ==
    [pos |-> pos,
     score_40 |-> IF score <= 100 THEN score * 4 ELSE score,
     relevance |-> score]

scored_candidates(results) ==
    [i \in 1..Len(results) |-> Scored(i, results[i].score)]

\* list.sort(key=..., reverse=True): stable, descending. x goes behind every
\* element whose key is not smaller.
InsertDesc(sorted, x, key) ==
    LET n == Cardinality({i \in 1..Len(sorted) : sorted[i][key] >= x[key]})
    IN  SubSeq(sorted, 1, n) \o <<x>> \o SubSeq(sorted, n + 1, Len(sorted))

RECURSIVE SortDesc(_, _)
SortDesc(s, key) ==
    IF s = <<>> THEN <<>>
    ELSE InsertDesc(SortDesc(SubSeq(s, 1, Len(s) - 1), key), s[Len(s)], key)

\* The older policy: the total alone.
MeetsTotalOnly(c, th) == c.score_40 >= th.min_score * 10

\* score_40 >= min_score and relevance >= min_relevance
MeetsThresholds(c, th) ==
    /\ c.score_40 >= th.min_score * 10
    /\ c.relevance >= th.min_relevance * 10

\* The loop over the sorted candidates: the first that meets both thresholds.
RECURSIVE FirstMeeting(_, _)
FirstMeeting(sorted, th) ==
    IF sorted = <<>> THEN NoPick
    ELSE IF MeetsThresholds(Head(sorted), th)
            THEN [tag |-> "best", pos |-> Head(sorted).pos, score_40 |-> Head(sorted).score_40]
            ELSE FirstMeeting(Tail(sorted), th)

best_result(results, th) ==
    FirstMeeting(SortDesc(scored_candidates(results), "score_40"), th)

PickInit ==
    /\ images = {}
    /\ history = <<>>
    /\ seq = 0
    /\ call = NoCall
    /\ ret = NoRet
    /\ rowcount = [images |-> 0, history |-> 0]
    /\ conn = Closed
    /\ pre = Db({}, <<>>, 0)
    /\ NoBatch
    /\ pick_out = NoPick
    /\ pick_in \in [tag : {"results"},
                    results : SeqsUpTo([score : ScoreSet], MaxCands),
                    th : [min_score : MinScores, min_relevance : MinRelevances]]

process_word_pick ==
    /\ pick_in.tag = "results"
    /\ pick_out = NoPick
    /\ pick_out' = [tag |-> "picked", best |-> best_result(pick_in.results, pick_in.th)]
    /\ UNCHANGED <<images, history, seq, call, ret, rowcount, conn, pre, pick_in, batch_vars, other_vars>>

SpecPick == PickInit /\ [][process_word_pick]_vars

----------------------------------------------------------------------------
(* ImageSearchOrchestrator.search_and_evaluate                             *)

neutral_score == 5      \* 0.5
failed_score == 3       \* 0.3

\* VisionClient.has_vision_model of a client that found its model.
has_vision_model == TRUE

Take(s, n) == SubSeq(s, 1, IF Len(s) < n THEN Len(s) ELSE n)

\* What _evaluate_image answers for an image, or the exception it raises.
VisionAnswers ==
    {[raises |-> TRUE, score |-> 0],
     [raises |-> FALSE, score |-> neutral_score],
     [raises |-> FALSE, score |-> 10]}

Image(url, answer) == [url |-> url, vision |-> answer]

\* The scoring branch: the vision model per image, failed_score when the
\* evaluation raises, neutral_score for all when throttled or without vision.
scored_results(imgs, use_vision, throttled) ==
    [i \in 1..Len(imgs) |->
        [url |-> imgs[i].url,
         score |-> IF use_vision /\ has_vision_model /\ ~throttled
                      THEN IF imgs[i].vision.raises THEN failed_score
                           ELSE imgs[i].vision.score
                      ELSE neutral_score]]

\* Returns the results and the cache it leaves.
search_and_evaluate(word, c, count, throttled) ==
    IF c.cache[word] # <<>>
       THEN [results |-> Take(c.cache[word], count), cache |-> c.cache]
    ELSE IF Take(c.found[word], count) = <<>>
       THEN [results |-> <<>>, cache |-> c.cache]
    ELSE LET sorted == SortDesc(
                 scored_results(Take(c.found[word], count), c.use_vision, throttled),
                 "score")
         IN  [results |-> Take(sorted, count),
              cache |-> [c.cache EXCEPT ![word] = sorted]]

----------------------------------------------------------------------------
(* BatchCurator                                                             *)

MaxRuns == 2      \* BatchCurator.run is called at most MaxRuns times
MaxManual == 2    \* manual and import operations in the runs with overrides

candidates_per_word == 2

lesson_id == "001"

BatchProgress(total) ==
    [total_words |-> total, processed |-> 0, successful |-> 0, failed |-> 0, skipped |-> 0]

\* BatchCurator.__init__
NewCurator ==
    [pc |-> "idle", to_process |-> <<>>, i |-> 0, progress |-> BatchProgress(0),
     summary |-> [tag |-> "none"], _shutdown_requested |-> FALSE, record |-> 0]

\* An INSERT that is not ignored when the pair is there.
add_to_queue_again(q, word, lesson, priority) ==
    [entries |-> q.entries \cup
        {[id |-> q.seq + 1, word |-> word, lesson_id |-> lesson,
          priority |-> priority, status |-> "pending", attempts |-> 0,
          error_message |-> "none"]},
     seq |-> q.seq + 1]

\* INSERT OR IGNORE INTO curation_queue (word, lesson_id, priority)
add_to_queue(q, word, lesson, priority) ==
    IF \E e \in q.entries : e.word = word /\ e.lesson_id = lesson
       THEN q
       ELSE [entries |-> q.entries \cup
                {[id |-> q.seq + 1, word |-> word, lesson_id |-> lesson,
                  priority |-> priority, status |-> "pending", attempts |-> 0,
                  error_message |-> "none"]},
             seq |-> q.seq + 1]

\* A run that enqueues its words and claims them at once.
add_all_claimed(q, words) ==
    [entries |-> q.entries \cup
        {[id |-> q.seq + i, word |-> words[i], lesson_id |-> lesson_id,
          priority |-> 0, status |-> "processing", attempts |-> 0,
          error_message |-> "none"] : i \in 1..Len(words)},
     seq |-> q.seq + Len(words)]

RECURSIVE add_all_to_queue(_, _)
add_all_to_queue(q, words) ==
    IF words = <<>> THEN q
    ELSE add_all_to_queue(add_to_queue(q, Head(words), lesson_id, 0), Tail(words))

\* A filter that keeps every word.
filter_nothing(vocab, imgs) == vocab

\* The words of the vocabulary without a selected image, in order.
RECURSIVE filter_words_needing_images(_, _)
filter_words_needing_images(vocab, imgs) ==
    IF vocab = <<>> THEN <<>>
    ELSE IF SelectedOf(imgs, Head(vocab)) = {}
            THEN <<Head(vocab)>> \o filter_words_needing_images(Tail(vocab), imgs)
            ELSE filter_words_needing_images(Tail(vocab), imgs)

\* summary = progress.to_dict(); summary["completed"] = not _shutdown_requested
Finish(b) ==
    [b EXCEPT !.pc = "returned",
              !.summary = [tag |-> "summary",
                           total |-> b.progress.total_words,
                           processed |-> b.progress.processed,
                           successful |-> b.progress.successful,
                           failed |-> b.progress.failed,
                           skipped |-> b.progress.skipped,
                           completed |-> ~b._shutdown_requested]]

\* processed += 1 and successful or failed += 1, then asyncio.sleep(0.5)
WordDone(b, success) ==
    [b EXCEPT !.pc = "sleep",
              !.progress.processed = @ + 1,
              !.progress.successful = IF success THEN @ + 1 ELSE @,
              !.progress.failed = IF success THEN @ ELSE @ + 1]

\* A loop whose process_word does not look at dry_run.
loop_without_dry_run(b, dry_run) ==
    IF b.i > Len(b.to_process) \/ b._shutdown_requested THEN Finish(b)
    ELSE [b EXCEPT !.pc = "search"]

\* The for loop of run from the top of an iteration to its next await: the
\* end of the list, the shutdown check, and process_word up to the search
\* (in a dry run process_word returns True at once).
Loop(b, dry_run) ==
    IF b.i > Len(b.to_process) \/ b._shutdown_requested THEN Finish(b)
    ELSE IF dry_run THEN WordDone(b, TRUE)
    ELSE [b EXCEPT !.pc = "search"]

\* A loop over the results that saves none of them.
save_none(d, word, results, status) == d

\* _save_candidate for each of the results, in order, with one status.
RECURSIVE save_all(_, _, _, _)
save_all(d, word, results, status) ==
    IF results = <<>> THEN d
    ELSE save_all(add_image_body(d, ImageRecord(word, Head(results).url, status)),
                  word, Tail(results), status)

\* What a batch action leaves in the variables of the last store call.
Called(c, r, n) ==
    /\ call' = c
    /\ ret' = r
    /\ rowcount' = n

\* The run that returned, as the later claims see it.
Returned(b) ==
    [summary |-> b.summary, to_process |-> b.to_process, images |-> images']

Record(b) ==
    runs' = IF b.pc = "returned" THEN Append(runs, Returned(b)) ELSE runs

\* run(vocabulary) up to its first await or its return.
run ==
    /\ batch.pc = "idle"
    /\ IF vocabulary = <<>>
          THEN /\ batch' = [batch EXCEPT !.pc = "returned",
                               !.summary = [tag |-> "error"]]
               /\ UNCHANGED queue
       ELSE IF filter_words_needing_images(vocabulary, images) = <<>>
          THEN /\ batch' = [batch EXCEPT !.pc = "returned",
                               !.summary = [tag |-> "message"]]
               /\ UNCHANGED queue
       ELSE LET to_process == filter_words_needing_images(vocabulary, images)
            IN  /\ queue' = add_all_to_queue(queue, to_process)
                /\ batch' = Loop([batch EXCEPT
                                     !.to_process = to_process,
                                     !.i = 1,
                                     !.progress = BatchProgress(Len(to_process))],
                                 cfg.dry_run)
    /\ UNCHANGED <<images, history, seq, call, ret, rowcount>>
    /\ Record(batch')
    /\ UNCHANGED <<conn, pre, pick_vars, other_vars, cfg, vocabulary, found, cache, budget>>

\* process_word from the return of search_and_evaluate to the next await.
process_word(throttled) ==
    /\ batch.pc = "search"
    /\ LET word == batch.to_process[batch.i]
           got == search_and_evaluate(
                      word,
                      [cache |-> cache, found |-> found, use_vision |-> cfg.use_vision],
                      candidates_per_word, throttled)
           best == best_result(got.results, cfg)
           saved == IF best = NoPick
                       THEN save_all(Committed, word, got.results, "rejected")
                       ELSE add_image_body(
                                Committed,
                                ImageRecord(word, got.results[best.pos].url, "selected"))
       IN  IF word \in raising
              THEN \* except Exception: return False
                   /\ batch' = WordDone(batch, FALSE)
                   /\ UNCHANGED <<images, history, seq, call, ret, rowcount, cache>>
           ELSE
           /\ cache' = got.cache
           /\ IF got.results = <<>> \/ (best = NoPick /\ ~cfg.save_rejected)
                 THEN /\ batch' = WordDone(batch, FALSE)
                      /\ UNCHANGED <<images, history, seq, call, ret, rowcount>>
              ELSE /\ Commit(saved)
                   /\ Called([op |-> "add_image", word |-> word,
                              url |-> IF best = NoPick
                                         THEN got.results[Len(got.results)].url
                                         ELSE got.results[best.pos].url,
                              status |-> IF best = NoPick THEN "rejected" ELSE "selected"],
                             RetId(saved.seq), [images |-> 1, history |-> 1])
                   /\ batch' =
                        IF best = NoPick THEN WordDone(batch, FALSE)
                        ELSE IF cfg.download_images
                                THEN [batch EXCEPT !.pc = "download", !.record = saved.seq]
                                ELSE WordDone(batch, TRUE)
    /\ UNCHANGED <<conn, pre, pick_vars, other_vars, cfg, vocabulary, found, queue, runs, budget>>

\* A download whose failure takes the selection back.
download_image_unselect(ok) ==
    /\ batch.pc = "download"
    /\ IF ok
          THEN Commit(update_image_body(Committed, batch.record,
                                        [col |-> "local_path", val |-> TRUE]))
          ELSE Commit(reject_image_body(Committed, batch.record))
    /\ Called([op |-> "update_image", image_id |-> batch.record, updates |-> "none"],
              RetBool(TRUE), [images |-> 1, history |-> 1])
    /\ batch' = WordDone([batch EXCEPT !.record = 0], TRUE)
    /\ UNCHANGED <<conn, pre, pick_vars, other_vars, cfg, vocabulary, found, cache, queue, runs, budget>>

\* _download_image from the answer of the download to the end of the word:
\* update_image with the local path when the image was fetched and stored.
download_image(ok) ==
    /\ batch.pc = "download"
    /\ IF ok
          THEN /\ Commit(update_image_body(Committed, batch.record,
                                           [col |-> "local_path", val |-> TRUE]))
               /\ Called([op |-> "update_image", image_id |-> batch.record,
                          updates |-> [col |-> "local_path", val |-> TRUE]],
                         RetBool(TRUE),
                         [images |-> Matched(Committed, batch.record), history |-> 1])
          ELSE UNCHANGED <<images, history, seq, call, ret, rowcount>>
    /\ batch' = WordDone([batch EXCEPT !.record = 0], TRUE)
    /\ UNCHANGED <<conn, pre, pick_vars, other_vars, cfg, vocabulary, found, cache, queue, runs, budget>>

\* asyncio.sleep(0.5) returns: the next iteration of the loop.
next_word ==
    /\ batch.pc = "sleep"
    /\ batch' = Loop([batch EXCEPT !.i = @ + 1], cfg.dry_run)
    /\ UNCHANGED <<images, history, seq, call, ret, rowcount>>
    /\ Record(batch')
    /\ UNCHANGED <<conn, pre, pick_vars, other_vars, cfg, vocabulary, found, cache, queue, budget>>

\* signal_handler, or shutdown(): _shutdown_requested = True
request_shutdown ==
    /\ batch.pc \in {"idle", "search", "download", "sleep"}
    /\ ~batch._shutdown_requested
    /\ batch' = [batch EXCEPT !._shutdown_requested = TRUE]
    /\ UNCHANGED <<images, history, seq, call, ret, rowcount>>
    /\ UNCHANGED <<conn, pre, pick_vars, other_vars, cfg, vocabulary, found, cache, queue, runs, budget>>

\* The batch is started again: a new BatchCurator on the same library and cache.
new_curator ==
    /\ batch.pc = "returned"
    /\ Len(runs) < MaxRuns
    /\ batch' = NewCurator
    /\ UNCHANGED <<images, history, seq, call, ret, rowcount>>
    /\ UNCHANGED <<conn, pre, pick_vars, other_vars, cfg, vocabulary, found, cache, queue, runs, budget>>

----------------------------------------------------------------------------
(* Inputs of the batch runs *)

\* min_score and min_relevance as given (28 and 7), and a pair a score of the
\* vision model can meet.
Thresholds == {[min_score |-> min_score, min_relevance |-> min_relevance],
               [min_score |-> 2, min_relevance |-> 1]}

Configs ==
    {[min_score |-> th.min_score, min_relevance |-> th.min_relevance,
      save_rejected |-> sr, download_images |-> dl, dry_run |-> dr, use_vision |-> uv] :
        th \in Thresholds, sr \in BOOLEAN, dl \in BOOLEAN, dr \in BOOLEAN, uv \in BOOLEAN}

\* What the providers hold for a word, of which a search takes the first
\* candidates_per_word: nothing, one image, two images, three images.
ProviderResults ==
    {<<>>,
     <<Image("u1", [raises |-> FALSE, score |-> 10])>>,
     <<Image("u1", [raises |-> FALSE, score |-> neutral_score]),
       Image("u2", [raises |-> FALSE, score |-> 10])>>,
     <<Image("u1", [raises |-> FALSE, score |-> 10]),
       Image("u2", [raises |-> FALSE, score |-> 10])>>,
     <<Image("u1", [raises |-> TRUE, score |-> 0]),
       Image("u2", [raises |-> FALSE, score |-> neutral_score])>>,
     <<Image("u1", [raises |-> TRUE, score |-> 0]),
       Image("u1", [raises |-> FALSE, score |-> neutral_score]),
       Image("u2", [raises |-> FALSE, score |-> 10])>>}

Vocabularies == {<<>>, <<"w1">>, <<"w1", "w2">>}

\* The words whose search raises whenever it is made.
Raisings == {{}, {"w1"}}

BatchInit ==
    /\ images = {}
    /\ history = <<>>
    /\ seq = 0
    /\ call = NoCall
    /\ ret = NoRet
    /\ rowcount = [images |-> 0, history |-> 0]
    /\ conn = Closed
    /\ pre = Db({}, <<>>, 0)
    /\ pick_in = NoPick
    /\ pick_out = NoPick
    /\ cfg \in Configs
    /\ vocabulary \in Vocabularies
    /\ found \in [Words -> ProviderResults]
    /\ cache = [w \in Words |-> <<>>]
    /\ queue = [entries |-> {}, seq |-> 0]
    /\ batch = NewCurator
    /\ runs = <<>>
    /\ budget = 0
    /\ server = NewServer
    /\ limiter = NoLimiter
    /\ raising \in Raisings
    /\ gate = NoGate

BatchNext ==
    \/ run
    \/ \E throttled \in BOOLEAN : process_word(throttled)
    \/ \E ok \in BOOLEAN : download_image(ok)
    \/ next_word
    \/ request_shutdown
    \/ new_curator

SpecBatch == BatchInit /\ [][BatchNext]_vars

----------------------------------------------------------------------------
(* A batch with an operator at the websocket and a library that holds      *)
(* imported candidates                                                      *)

\* BatchOperations.import_mappings of a file with one mapping that names no
\* status: the record is added as a candidate, unless its url is already
\* among the word's records and overwrite is off.
import_mappings(word, url, overwrite) ==
    /\ batch.pc = "idle"
    /\ budget > 0
    /\ budget' = budget - 1
    /\ IF (\E r \in images : r.word = word /\ r.url = url) /\ ~overwrite
          THEN UNCHANGED <<images, history, seq, call, ret, rowcount>>
          ELSE /\ Commit(add_image_body(Committed, ImageRecord(word, url, "candidate")))
               /\ Called([op |-> "add_image", word |-> word, url |-> url,
                          status |-> "candidate"],
                         RetId(seq + 1), [images |-> 1, history |-> 1])
    /\ UNCHANGED <<conn, pre, pick_vars, other_vars, cfg, vocabulary, found, cache, queue, batch, runs>>

\* CuratorWebSocketServer._handle_manual_select: the message of an operator
\* is handled while the batch waits in one of its awaits.
_handle_manual_select(image_id) ==
    /\ batch.pc \in {"search", "download", "sleep"}
    /\ budget > 0
    /\ budget' = budget - 1
    /\ select_image_call(image_id)
    /\ UNCHANGED <<conn, pre, pick_vars, other_vars, cfg, vocabulary, found, cache, queue, batch, runs>>

OverrideConfigs ==
    {c \in Configs : ~c.dry_run /\ c.use_vision /\ c.min_score < min_score}

OverrideInit ==
    /\ images = {}
    /\ history = <<>>
    /\ seq = 0
    /\ call = NoCall
    /\ ret = NoRet
    /\ rowcount = [images |-> 0, history |-> 0]
    /\ conn = Closed
    /\ pre = Db({}, <<>>, 0)
    /\ pick_in = NoPick
    /\ pick_out = NoPick
    /\ cfg \in OverrideConfigs
    /\ vocabulary \in Vocabularies \ {<<>>}
    /\ found \in [Words -> ProviderResults]
    /\ cache = [w \in Words |-> <<>>]
    /\ queue = [entries |-> {}, seq |-> 0]
    /\ batch = NewCurator
    /\ runs = <<>>
    /\ budget = MaxManual
    /\ server = NewServer
    /\ limiter = NoLimiter
    /\ raising = {}
    /\ gate = NoGate

OverrideNext ==
    \/ \E w \in Words, u \in Urls, o \in BOOLEAN : import_mappings(w, u, o)
    \/ \E id \in Ids : _handle_manual_select(id)
    \/ run
    \/ \E throttled \in BOOLEAN : process_word(throttled)
    \/ \E ok \in BOOLEAN : download_image(ok)
    \/ next_word

SpecOverride == OverrideInit /\ [][OverrideNext]_vars

----------------------------------------------------------------------------
(* Claims about the store under Spec *)

IsPrefix(s, t) == Len(s) <= Len(t) /\ SubSeq(t, 1, Len(s)) = s

\* The audit rows a step appended.
NewAudit == {history'[i] : i \in (Len(history) + 1)..Len(history')}

\* C1: in every state reachable by the store's mutating operations each word
\* has at most one record whose status is 'selected'.
C1_AtMostOneSelectedPerWord ==
    \A w \in Words : Cardinality(SelectedOf(images, w)) <= 1

\* C2: after every select_image(id) that returns True, record id is
\* 'selected', it is the only 'selected' record of its word, and every other
\* record of the word that was 'selected' before the call is 'candidate'.
C2_SelectPromotesAndDemotes ==
    [][(call'.op = "select_image" /\ ret' = RetBool(TRUE)) =>
        LET id == call'.image_id
            now == Db(images', history', seq')
            w == Row(now, id).word
        IN  /\ Exists(now, id)
            /\ Row(now, id).status = "selected"
            /\ SelectedOf(images', w) = {Row(now, id)}
            /\ \A r \in SelectedOf(images, w) :
                  r.id # id => /\ Exists(now, r.id)
                               /\ Row(now, r.id).status = "candidate"]_vars

\* C2 witness: a select_image returned True and wrote two rows, the row it
\* promoted and a row of the same word it demoted.
C2_Witness ==
    /\ call.op = "select_image" /\ ret = RetBool(TRUE)
    /\ rowcount.images = 2
    /\ \E r \in images : /\ r.id # call.image_id
                         /\ r.word = Row(Committed, call.image_id).word
                         /\ r.status = "candidate"

\* C5: no two records share the same (word, url); add_image for a pair that
\* exists does not raise and leaves exactly one record for the pair, the one
\* whose id it returned.
C5_WordUrlUnique ==
    /\ \A r1, r2 \in images : (r1.word = r2.word /\ r1.url = r2.url) => r1 = r2
    /\ call.op = "add_image" =>
          /\ ret.tag = "id"
          /\ {r.id : r \in {x \in images : x.word = call.word /\ x.url = call.url}} = {ret.val}

\* C5 witness: add_image was called twice for the same pair; one record is left.
C5_Witness ==
    /\ call.op = "add_image"
    /\ Len(history) = 2
    /\ \A i \in 1..2 : history[i].action = "created"
    /\ Cardinality(images) = 1

\* C6: every mutation commits together with its audit entry: no committed
\* state holds a record change without an audit entry or an audit entry
\* without a record change, and committed audit entries are never modified
\* or removed.
C6_AuditCommitsWithChange ==
    [][/\ (rowcount'.images > 0) <=> (rowcount'.history > 0)
       /\ images' # images => history' # history
       /\ IsPrefix(history, history')]_vars

\* C7: every change of a record's status, the demotion done by select_image
\* included, is matched by an audit entry that references the record.
C7_StatusChangeAudited ==
    [][\A r \in images, r2 \in images' :
          (r.id = r2.id /\ r.status # r2.status) =>
              \E e \in NewAudit : e.image_id = r.id]_vars

\* C8: select_image with an id that does not exist returns False and leaves
\* every record and the audit log unchanged.
C8_SelectMissingIsNoOp ==
    [][(call'.op = "select_image" /\ ~Exists(Committed, call'.image_id)) =>
          /\ ret' = RetBool(FALSE)
          /\ images' = images
          /\ history' = history
          /\ seq' = seq]_vars

\* C8 witness: select_image returned False on a store that holds records and
\* audit entries.
C8_Witness ==
    /\ call.op = "select_image" /\ ret = RetBool(FALSE)
    /\ images # {}
    /\ history # <<>>

----------------------------------------------------------------------------
(* Claims about an interrupted select_image, under SpecTx *)

\* C3: if select_image is interrupted between its statements, the committed
\* store is the store before the call: no word gains or loses a 'selected'
\* record, so none has two, and none has zero that had one.
C3_InterruptedSelectRollsBack ==
    /\ conn.state = "open" => Committed = pre
    /\ (call.op = "select_image" /\ ret = Raised) =>
          /\ Committed = pre
          /\ \A w \in Words :
                Cardinality(SelectedOf(images, w)) = Cardinality(SelectedOf(pre.images, w))

\* C3 witness: select_image was interrupted after its demotion and before
\* its promotion, on a word whose selected record is another record.
C3_Witness ==
    /\ call.op = "select_image" /\ ret = Raised
    /\ call.at = "promote"
    /\ \E r \in images : /\ r.id # call.image_id
                         /\ r.word = Row(Committed, call.image_id).word
                         /\ r.status = "selected"

----------------------------------------------------------------------------
(* Claims about the choice of process_word, under SpecPick *)

\* The results that pass both gates, by their place in the results.
Passing(results, th) ==
    {i \in 1..Len(results) :
        /\ scored_candidates(results)[i].score_40 >= th.min_score * 10
        /\ results[i].score >= th.min_relevance * 10}

\* C10: process_word picks exactly the candidate that comes first, in
\* descending order of total score with equal totals in search order, among
\* the candidates whose total is >= min_score and whose relevance is
\* >= min_relevance; it picks none when none passes both.
C10_PicksFirstPassingByTotal ==
    pick_out.tag = "picked" =>
        LET rs == pick_in.results
            ok == Passing(rs, pick_in.th)
            total(i) == scored_candidates(rs)[i].score_40
        IN  IF ok = {} THEN pick_out.best = NoPick
            ELSE /\ pick_out.best.tag = "best"
                 /\ pick_out.best.pos \in ok
                 /\ \A j \in ok :
                       \/ total(j) < total(pick_out.best.pos)
                       \/ total(j) = total(pick_out.best.pos) /\ j >= pick_out.best.pos

\* C10 witness: the pick is not the first result in search order, a result
\* with a higher total failed the relevance gate, and another result ties
\* with the pick.
C10_Witness ==
    /\ pick_out.tag = "picked"
    /\ pick_out.best.tag = "best"
    /\ pick_out.best.pos > 1
    /\ \E j \in 1..Len(pick_in.results) :
          /\ scored_candidates(pick_in.results)[j].score_40 > pick_out.best.score_40
          /\ j \notin Passing(pick_in.results, pick_in.th)
    /\ \E j \in Passing(pick_in.results, pick_in.th) :
          /\ j > pick_out.best.pos
          /\ scored_candidates(pick_in.results)[j].score_40 = pick_out.best.score_40

----------------------------------------------------------------------------
(* Claims about the batch under SpecBatch and SpecOverride *)

SelectedIn(imgs) == {r \in imgs : r.status = "selected"}

\* The run went through its whole list: it returned a summary that counts
\* every word of to_process as processed, or it had nothing to process.
ProcessedAll(r) ==
    r.summary.tag = "summary" => r.summary.processed = r.summary.total

\* C4: in every state of a batch interleaved with manual selects by an
\* operator on records of the batch's words, each word has at most one
\* 'selected' record.
C4_OneSelectedUnderOverride ==
    \A w \in Words : Cardinality({r \in images : r.word = w /\ r.status = "selected"}) <= 1

----------------------------------------------------------------------------
(* Claims about the outcome of a word under SpecBatch *)

\* The word the batch is at, the results process_word got for it (the cache
\* keeps them once the search has returned any) and the winner among them.
CurrentWord(b) == b.to_process[b.i]

ResultsOf(c, word) == Take(c[word], candidates_per_word)

WinnerOf(c, word) == best_result(ResultsOf(c, word), cfg)

\* The step that ends a word that was searched for.
WordEnds ==
    /\ batch.pc \in {"search", "download"}
    /\ batch'.pc = "sleep"

HasRecord(imgs, word, url, status) ==
    \E r \in imgs : r.word = word /\ r.url = url /\ r.status = status

\* C11: when a candidate of the word passes both thresholds and save_rejected
\* is on, the word ends with the winner 'selected', every other returned
\* candidate 'rejected', and the word counted as successful, not failed.
C11_WinnerSelectedOthersRejected ==
    [][(WordEnds /\ cfg.save_rejected /\ WinnerOf(cache', CurrentWord(batch)) # NoPick) =>
          LET word == CurrentWord(batch)
              results == ResultsOf(cache', word)
              best == WinnerOf(cache', word)
          IN  /\ HasRecord(images', word, results[best.pos].url, "selected")
              /\ \A i \in 1..Len(results) :
                    results[i].url # results[best.pos].url =>
                        HasRecord(images', word, results[i].url, "rejected")
              /\ batch'.progress.successful = batch.progress.successful + 1
              /\ batch'.progress.failed = batch.progress.failed
      ]_vars

\* C12: when no candidate of the word passes both thresholds, the word is
\* counted as failed, no 'selected' record is written, and every returned
\* candidate has a 'rejected' record when save_rejected is on; when it is off
\* no record is written at all.
C12_NoWinnerFailsAndRejects ==
    [][(WordEnds /\ WinnerOf(cache', CurrentWord(batch)) = NoPick) =>
          LET word == CurrentWord(batch)
              results == ResultsOf(cache', word)
          IN  /\ batch'.progress.failed = batch.progress.failed + 1
              /\ batch'.progress.successful = batch.progress.successful
              /\ SelectedIn(images') = SelectedIn(images)
              /\ cfg.save_rejected =>
                    \A i \in 1..Len(results) :
                        HasRecord(images', word, results[i].url, "rejected")
              /\ ~cfg.save_rejected => (images' = images /\ history' = history)
      ]_vars

\* A word with two candidates, none passing, ended with both saved as rejected.
C12_Witness ==
    /\ batch.pc = "sleep"
    /\ cfg.save_rejected
    /\ batch.progress.failed = 1
    /\ batch.progress.processed = 1
    /\ LET results == ResultsOf(cache, CurrentWord(batch))
       IN  /\ Len(results) = 2
           /\ results[1].url # results[2].url
           /\ WinnerOf(cache, CurrentWord(batch)) = NoPick
           /\ \A i \in 1..2 : HasRecord(images, CurrentWord(batch), results[i].url, "rejected")

----------------------------------------------------------------------------
(* CuratorWebSocketServer: the handlers of the control messages and the    *)
(* task that runs the curator.  A handler runs from its message to its     *)
(* end; the task of the curator runs between the handlers, one await at a  *)
(* time.                                                                    *)

MaxMessages == 3   \* control messages handled by the server

\* BatchConfig() as _handle_start builds it: thresholds and use_vision from
\* the message, the other fields at their defaults.
StartConfigs ==
    {c \in Configs : c.save_rejected /\ c.download_images /\ ~c.dry_run}

\* task.cancel(): CancelledError is raised at the await the task is in; no
\* handler of process_word, _save_candidate or _download_image catches it
\* (they catch Exception), so run is left there.
Cancelled(b) ==
    IF b.pc \in {"idle", "search", "download", "sleep"}
       THEN [b EXCEPT !.pc = "cancelled"]
       ELSE b

\* BatchCurator.shutdown(), which sets the flag; the api client has no close.
shutdown(b) == [b EXCEPT !._shutdown_requested = TRUE]

Handled ==
    /\ budget > 0
    /\ budget' = budget - 1
    /\ UNCHANGED <<images, history, seq, call, ret, rowcount, conn, pre>>
    /\ UNCHANGED <<pick_vars, limiter, raising, gate, vocabulary, found, cache, queue, runs>>

\* What a handler that broadcasts nothing leaves.
Silent(s) == [s EXCEPT !.sent = "none"]

\* _handle_start going on to start the task after it reported that
\* initialize failed.
_handle_start_regardless(config, initialized) ==
    /\ Handled
    /\ IF server.is_running
          THEN /\ server' = [server EXCEPT !.sent = "Already running"]
               /\ UNCHANGED <<cfg, batch>>
          ELSE /\ cfg' = config
               /\ batch' = NewCurator
               /\ server' = [server EXCEPT
                                !.curator = TRUE,
                                !.is_running = TRUE,
                                !.is_paused = FALSE,
                                !._curator_task = "running",
                                !.sent = IF initialized THEN "running"
                                         ELSE "Failed to initialize curator"]

_handle_start(config, initialized) ==
    /\ Handled
    /\ IF server.is_running
          THEN /\ server' = [server EXCEPT !.sent = "Already running"]
               /\ UNCHANGED <<cfg, batch>>
          ELSE /\ cfg' = config
               /\ batch' = NewCurator
               /\ server' =
                    IF ~initialized
                       THEN [server EXCEPT !.curator = TRUE,
                                           !.sent = "Failed to initialize curator"]
                       ELSE [server EXCEPT !.curator = TRUE,
                                           !.is_running = TRUE,
                                           !.is_paused = FALSE,
                                           !._curator_task = "running",
                                           !.sent = "running"]

_handle_stop ==
    /\ Handled
    /\ UNCHANGED cfg
    /\ IF ~server.is_running
          THEN /\ server' = Silent(server)
               /\ UNCHANGED batch
          ELSE /\ batch' = IF ~server.curator THEN batch
                           ELSE IF server._curator_task = "running"
                                   THEN Cancelled(shutdown(batch))
                                   ELSE shutdown(batch)
               /\ server' = [server EXCEPT
                                !._curator_task = IF @ = "running" THEN "cancelled" ELSE @,
                                !.is_running = FALSE,
                                !.is_paused = FALSE,
                                !.sent = "stopped"]

_handle_pause ==
    /\ Handled
    /\ UNCHANGED <<cfg, batch>>
    /\ IF ~server.is_running \/ server.is_paused
          THEN server' = Silent(server)
          ELSE server' = [server EXCEPT !.is_paused = TRUE, !.sent = "paused"]

_handle_resume ==
    /\ Handled
    /\ UNCHANGED <<cfg, batch>>
    /\ IF ~server.is_running \/ ~server.is_paused
          THEN server' = Silent(server)
          ELSE server' = [server EXCEPT !.is_paused = FALSE, !.sent = "running"]

\* _run_curator after run() has returned: COMPLETE is broadcast and the
\* finally clause sets is_running.
_run_curator ==
    /\ server._curator_task = "running"
    /\ batch.pc = "returned"
    /\ server' = [server EXCEPT !._curator_task = "done",
                                !.is_running = FALSE,
                                !.sent = "stopped"]
    /\ UNCHANGED <<images, history, seq, call, ret, rowcount, conn, pre>>
    /\ UNCHANGED <<pick_vars, limiter, raising, gate, batch_vars>>

\* A step of the task that runs the curator.
curator_task ==
    /\ server._curator_task = "running"
    /\ \/ run
       \/ \E throttled \in BOOLEAN : process_word(throttled)
       \/ \E ok \in BOOLEAN : download_image(ok)
       \/ next_word

\* What the providers hold in the runs of the server.
ServerResults ==
    {r \in ProviderResults : Len(r) = 2 /\ ~r[1].vision.raises}

ServerInit ==
    /\ images = {}
    /\ history = <<>>
    /\ seq = 0
    /\ call = NoCall
    /\ ret = NoRet
    /\ rowcount = [images |-> 0, history |-> 0]
    /\ conn = Closed
    /\ pre = Db({}, <<>>, 0)
    /\ pick_in = NoPick
    /\ pick_out = NoPick
    /\ cfg \in {c \in StartConfigs : c.use_vision /\ c.min_score = min_score}
    /\ vocabulary \in Vocabularies
    /\ found \in [Words -> ServerResults]
    /\ cache = [w \in Words |-> <<>>]
    /\ queue = [entries |-> {}, seq |-> 0]
    /\ batch = NewCurator
    /\ runs = <<>>
    /\ budget = MaxMessages
    /\ server = NewServer
    /\ limiter = NoLimiter
    /\ raising = {}
    /\ gate = NoGate

ServerNext ==
    \/ \E c \in StartConfigs, ok \in BOOLEAN : _handle_start(c, ok)
    \/ _handle_stop
    \/ _handle_pause
    \/ _handle_resume
    \/ _run_curator
    \/ curator_task

SpecServer == ServerInit /\ [][ServerNext]_vars

----------------------------------------------------------------------------
(* Claims about stopping and the state of the server *)

WordInFlight(b) == b.pc \in {"search", "download"}

\* C13: a stop request never interrupts the word in flight: a word that is
\* being searched for or downloaded is left only by going on to its next
\* step or to its end, and once a stop was requested no further word starts.
C13_StopNeverInterruptsWord ==
    [][/\ WordInFlight(batch) => batch'.pc \in {"search", "download", "sleep"}
       /\ (batch._shutdown_requested /\ ~WordInFlight(batch)) => ~WordInFlight(batch')
      ]_vars

\* The state of the server as the pair (is_running, is_paused).
ServerState(s) ==
    CASE ~s.is_running /\ ~s.is_paused -> "idle"
      [] s.is_running /\ ~s.is_paused -> "running"
      [] s.is_running /\ s.is_paused -> "paused"
      [] OTHER -> "paused, not running"

\* C14: (is_running, is_paused) is always idle/stopped, running or paused,
\* never paused while not running, and it changes only from idle to running,
\* between running and paused, and from running or paused to stopped.
C14_ServerStateMachine ==
    [][/\ ServerState(server') \in {"idle", "running", "paused"}
       /\ ServerState(server') # ServerState(server) =>
            <<ServerState(server), ServerState(server')>> \in
                {<<"idle", "running">>, <<"running", "paused">>, <<"paused", "running">>,
                 <<"running", "idle">>, <<"paused", "idle">>}
      ]_vars

\* C15: when initialize fails on a START request the batch stays idle:
\* is_running stays false, no task is created, no word is processed, nothing
\* is written to the library or its queue, and the error is sent to the clients.
C15_FailedInitializeStaysIdle ==
    [][(budget' = budget - 1 /\ server'.sent = "Failed to initialize curator") =>
          /\ ~server.is_running /\ ~server'.is_running
          /\ ServerState(server') = ServerState(server)
          /\ server'._curator_task = server._curator_task
          /\ server'._curator_task # "running"
          /\ batch' = NewCurator
          /\ UNCHANGED <<images, history, seq, queue, cache, runs>>
      ]_vars

\* A START whose initialize failed, after an earlier run that was stopped.
C15_Witness ==
    /\ server.sent = "Failed to initialize curator"
    /\ server._curator_task = "cancelled"
    /\ batch = NewCurator

----------------------------------------------------------------------------
(* Claims about the loop of run under SpecBatch *)

\* The step that ends a word, in a dry run too.
WordCounted ==
    /\ batch.pc \in {"idle", "search", "download", "sleep"}
    /\ batch'.pc = "sleep"
    /\ batch'.progress.processed = batch.progress.processed + 1

\* The word that ends has failed: nothing was found or the search raised,
\* no candidate met the thresholds, or the download of the winner failed.
WordFailed ==
    \/ /\ batch.pc = "search"
       /\ WinnerOf(cache', CurrentWord(batch)) = NoPick
    \/ /\ batch.pc = "download"
       /\ images' = images

\* C16: without a stop request every word of the filtered list is processed
\* exactly once, one at a time and in the order of the list, whatever happened
\* to the words before it; a word that fails is counted as failed and the
\* next word is processed all the same.
C16_EveryWordOnceInOrder ==
    [][~batch'._shutdown_requested =>
          /\ WordCounted =>
                /\ batch'.i = batch'.progress.processed
          /\ (WordCounted /\ WordFailed) =>
                /\ batch'.progress.failed = batch.progress.failed + 1
                /\ batch'.progress.successful = batch.progress.successful
          /\ (batch.pc = "sleep" /\ batch' # batch) =>
                IF batch.i < Len(batch.to_process)
                   THEN /\ batch'.i = batch.i + 1
                        /\ batch'.to_process = batch.to_process
                        /\ batch'.pc \in {"search", "sleep"}
                   ELSE /\ batch'.pc = "returned"
                        /\ batch'.summary.processed = Len(batch.to_process)
      ]_vars

\* C17: for every vocabulary, an empty one and one whose words all have a
\* selection included, what run returns holds the counts of processed,
\* successful, failed and skipped words and the flag that tells whether the
\* batch completed.
C17_RunReturnsSummary ==
    batch.pc = "returned" =>
        /\ batch.summary.tag = "summary"
        /\ batch.summary.processed = batch.progress.processed
        /\ batch.summary.successful = batch.progress.successful
        /\ batch.summary.failed = batch.progress.failed
        /\ batch.summary.skipped = batch.progress.skipped
        /\ batch.summary.completed = ~batch._shutdown_requested

\* The runs that returned before the run the batch is in.
EarlierRuns ==
    IF batch.pc = "returned" THEN Len(runs) - 1 ELSE Len(runs)

\* C18: when the download of the winner fails, the record stays 'selected'
\* with its audit entry and without a local path, the word gets no further
\* record, and a later run does not process the word again.
C18_FailedDownloadKeepsSelection ==
    [][/\ (/\ batch.pc = "download"
           /\ batch'.pc = "sleep"
           /\ ~\E r \in images' : r.id = batch.record /\ r.local_path) =>
             /\ \E r \in images' :
                   /\ r.id = batch.record
                   /\ r.word = CurrentWord(batch)
                   /\ r.status = "selected"
                   /\ ~r.local_path
             /\ \E k \in 1..Len(history') : history'[k].image_id = batch.record
             /\ {r \in images' : r.word = CurrentWord(batch)}
                  = {r \in images : r.word = CurrentWord(batch)}
       /\ (EarlierRuns >= 1 /\ batch.pc \in {"search", "download", "sleep", "returned"}) =>
             \A r \in runs[EarlierRuns].images :
                 (r.status = "selected" /\ ~r.local_path) =>
                     /\ \A i \in 1..Len(batch.to_process) : batch.to_process[i] # r.word
                     /\ {x \in images : x.word = r.word}
                          = {x \in runs[EarlierRuns].images : x.word = r.word}
      ]_vars

\* A second run that went through its list while the first run's selection,
\* whose download had failed, is still without a local path.
C18_Witness ==
    /\ Len(runs) = 2
    /\ cfg.download_images
    /\ runs[2].summary.tag = "summary"
    /\ runs[2].summary.processed = 1
    /\ \E r \in runs[1].images : r.status = "selected" /\ ~r.local_path /\ r \in images

----------------------------------------------------------------------------
(* RateLimiter.  Time is counted in ticks and kept as ages: an entry of     *)
(* requests is the time since that admission (now - r), so r > cutoff reads *)
(* age < period_seconds; an age stops growing at period_seconds, where the  *)
(* entry is outside every later window.                                     *)

period_seconds == 3    \* ticks in the window
MaxCapacity == 2       \* requests_per_period is at most MaxCapacity
MaxCalls == 1          \* acquire is called at most MaxCalls times by a caller

Callers == {"c1", "c2", "c3"}

\* RateLimiter.__init__, with callers that have not called yet.  admitted is
\* the record of the admissions of the last period_seconds, kept apart from
\* the list the limiter filters; depth counts the nested calls of acquire.
NewLimiter(n) ==
    [requests_per_period |-> n,
     requests |-> <<>>,
     admitted |-> <<>>,
     callers |-> [c \in Callers |-> [pc |-> "idle", wait_time |-> 0, calls |-> 0, depth |-> 0]]]

\* self.requests = [r for r in self.requests if r > cutoff]
Recent(requests) == SelectSeq(requests, LAMBDA age : age < period_seconds)

\* A limit that lets one request more through.
LimitReachedAbove(l) == Len(Recent(l.requests)) > l.requests_per_period

\* len(self.requests) >= self.requests_per_period
LimitReached(l) == Len(Recent(l.requests)) >= l.requests_per_period

\* An acquire that turns the request down when the limit is reached.
acquire_or_reject(l, c) ==
    IF LimitReached(l)
       THEN [l EXCEPT !.requests = Recent(l.requests),
                      !.callers[c].pc = "returned False"]
       ELSE [l EXCEPT !.requests = Append(Recent(l.requests), 0),
                      !.admitted = Append(@, 0),
                      !.callers[c].pc = "returned True",
                      !.callers[c].wait_time = 0]

\* The body of acquire from its first line to its await or its return.
acquire_body(l, c) ==
    IF LimitReached(l)
       THEN [l EXCEPT !.requests = Recent(l.requests),
                      !.callers[c].pc = "sleeping",
                      !.callers[c].depth = @ + 1,
                      !.callers[c].wait_time = period_seconds - Recent(l.requests)[1]]
       ELSE [l EXCEPT !.requests = Append(Recent(l.requests), 0),
                      !.admitted = Append(@, 0),
                      !.callers[c].pc = "returned True",
                      !.callers[c].wait_time = 0]

LimiterStep ==
    /\ UNCHANGED <<images, history, seq, call, ret, rowcount, conn, pre>>
    /\ UNCHANGED <<pick_vars, batch_vars, server, raising, gate>>

\* A caller calls acquire.
acquire(c) ==
    /\ limiter.callers[c].pc \in {"idle", "returned True"}
    /\ limiter.callers[c].calls < MaxCalls
    /\ limiter' = acquire_body([limiter EXCEPT !.callers[c].calls = @ + 1,
                                               !.callers[c].depth = 0], c)
    /\ LimiterStep

\* asyncio.sleep(wait_time) is over: return await self.acquire()
acquire_again(c) ==
    /\ limiter.callers[c].pc = "sleeping"
    /\ limiter.callers[c].wait_time = 0
    /\ limiter' = acquire_body(limiter, c)
    /\ LimiterStep

Older(age) == IF age < period_seconds THEN age + 1 ELSE age

\* A tick of the clock.
tick ==
    /\ limiter' = [limiter EXCEPT
          !.requests = [i \in 1..Len(@) |-> Older(@[i])],
          !.admitted = SelectSeq([i \in 1..Len(@) |-> Older(@[i])],
                                 LAMBDA age : age < period_seconds),
          !.callers = [c \in Callers |->
                          [@[c] EXCEPT !.wait_time = IF @ > 0 THEN @ - 1 ELSE 0]]]
    /\ LimiterStep

LimiterInit ==
    /\ images = {}
    /\ history = <<>>
    /\ seq = 0
    /\ call = NoCall
    /\ ret = NoRet
    /\ rowcount = [images |-> 0, history |-> 0]
    /\ conn = Closed
    /\ pre = Db({}, <<>>, 0)
    /\ pick_in = NoPick
    /\ pick_out = NoPick
    /\ cfg = [tag |-> "none"]
    /\ vocabulary = <<>>
    /\ found = <<>>
    /\ cache = <<>>
    /\ queue = [entries |-> {}, seq |-> 0]
    /\ batch = [pc |-> "none"]
    /\ runs = <<>>
    /\ budget = 0
    /\ server = NewServer
    /\ raising = {}
    /\ gate = NoGate
    /\ limiter \in {NewLimiter(n) : n \in 1..MaxCapacity}

LimiterNext ==
    \/ \E c \in Callers : acquire(c)
    \/ \E c \in Callers : acquire_again(c)
    \/ tick

SpecLimiter == LimiterInit /\ [][LimiterNext]_vars

\* The clock goes on and a sleeper whose time is over is resumed.
SpecLimiterFair ==
    /\ SpecLimiter
    /\ WF_vars(tick)
    /\ \A c \in Callers : WF_vars(acquire_again(c))

----------------------------------------------------------------------------
(* Claims about the rate limiter *)

Admitted(c) ==
    /\ limiter.callers[c].pc \in {"idle", "sleeping"}
    /\ limiter'.callers[c].pc = "returned True"

\* C19: with the window holding N admissions, an acquire does not return
\* before the oldest of them has aged out of the window; it sleeps and is
\* admitted afterwards, returning True; it never returns False nor raises;
\* and every acquire is admitted in the end as time goes on.
C19_FullWindowDelaysNeverRejects ==
    /\ [][\A c \in Callers :
            /\ Admitted(c) => Len(limiter.admitted) < limiter.requests_per_period
            /\ limiter'.callers[c].pc \in {"idle", "sleeping", "returned True"}
            /\ (limiter.callers[c].pc = "sleeping" /\ limiter.callers[c].wait_time > 0) =>
                  limiter'.callers[c].pc = "sleeping"
         ]_vars
    /\ \A c \in Callers :
          (limiter.callers[c].pc = "sleeping") ~> (limiter.callers[c].pc = "returned True")

\* Every caller has been admitted, one of them after it slept twice: it
\* called with the window full, and when it woke another caller that woke at
\* the same time had taken the place.
C19_Witness ==
    /\ \A c \in Callers : limiter.callers[c].pc = "returned True"
    /\ \E c \in Callers : limiter.callers[c].depth = 2

\* C20: at every instant at most N admissions lie within the last
\* period_seconds, whatever the order in which concurrent callers run and
\* wake.
C20_WindowNeverExceedsCapacity ==
    Len(limiter.admitted) <= limiter.requests_per_period

\* The window is full while two callers sleep, both due at the same time.
C20_Witness ==
    /\ Len(limiter.admitted) = limiter.requests_per_period
    /\ \E c1, c2 \in Callers :
          /\ c1 # c2
          /\ limiter.callers[c1].pc = "sleeping"
          /\ limiter.callers[c2].pc = "sleeping"
          /\ limiter.callers[c1].wait_time = limiter.callers[c2].wait_time

----------------------------------------------------------------------------
(* The curation queue.  Every call opens its own connection; sqlite3 begins *)
(* a transaction before an INSERT or UPDATE, not before a SELECT, so the    *)
(* SELECT of get_next_queue_item reads outside any transaction and the      *)
(* UPDATE and commit that follow are one write.  created_at grows with id.  *)

MaxQueue == 2       \* rows ever inserted into curation_queue
MaxAttempts == 1    \* failed attempts counted on one row

QueueWords == {"w1"}
Lessons == {lesson_id, "002"}
Priorities == {0, 1}
Errors == {"timeout"}
QueueCallers == {"q1", "q2"}

Pending(entries) == {e \in entries : e.status = "pending"}

\* ORDER BY priority DESC, created_at ASC LIMIT 1
FirstPending(entries) ==
    CHOOSE e \in Pending(entries) :
        \A o \in Pending(entries) :
            \/ e.priority > o.priority
            \/ e.priority = o.priority /\ e.id <= o.id

\* UPDATE curation_queue SET status = 'processing' WHERE id = ?
MarkProcessing(q, id) ==
    [q EXCEPT !.entries =
        {IF e.id = id THEN [e EXCEPT !.status = "processing"] ELSE e : e \in @}]

\* complete_queue_item that leaves the attempt counter alone.
complete_without_count(q, id, success, error) ==
    [q EXCEPT !.entries =
        {IF e.id # id THEN e
         ELSE IF success THEN [e EXCEPT !.status = "completed"]
         ELSE [e EXCEPT !.status = "pending", !.error_message = error] : e \in @}]

\* The UPDATE of complete_queue_item.
complete_queue_item_body(q, id, success, error) ==
    [q EXCEPT !.entries =
        {IF e.id # id THEN e
         ELSE IF success THEN [e EXCEPT !.status = "completed"]
         ELSE [e EXCEPT !.status = "pending",
                        !.attempts = @ + 1,
                        !.error_message = error] : e \in @}]

QueueStep ==
    /\ UNCHANGED <<images, history, seq, rowcount, pre>>
    /\ UNCHANGED <<pick_vars, other_vars, cfg, vocabulary, found, cache, batch, runs, budget>>

\* ImageLibrary.add_to_queue
add_to_queue_call(word, lesson, priority) ==
    /\ queue.seq < MaxQueue
    /\ queue' = add_to_queue(queue, word, lesson, priority)
    /\ call' = [op |-> "add_to_queue", word |-> word, lesson_id |-> lesson,
                priority |-> priority]
    /\ ret' = RetBool(TRUE)
    /\ UNCHANGED conn
    /\ QueueStep

\* get_next_queue_item: the SELECT; without a pending row it returns None.
get_next_queue_item_select(c) ==
    /\ conn.callers[c].pc \in {"idle", "returned"}
    /\ IF Pending(queue.entries) = {}
          THEN conn' = [conn EXCEPT !.callers[c] = [pc |-> "returned", row |-> 0]]
          ELSE conn' = [conn EXCEPT !.callers[c] =
                           [pc |-> "selected", row |-> FirstPending(queue.entries).id]]
    /\ call' = [op |-> "get_next_queue_item", caller |-> c]
    /\ ret' = NoRet
    /\ UNCHANGED queue
    /\ QueueStep

\* get_next_queue_item: the UPDATE of the row it read, the commit, the return.
get_next_queue_item(c) ==
    /\ conn.callers[c].pc = "selected"
    /\ queue' = MarkProcessing(queue, conn.callers[c].row)
    /\ conn' = [conn EXCEPT !.callers[c].pc = "returned"]
    /\ call' = [op |-> "get_next_queue_item", caller |-> c]
    /\ ret' = RetId(conn.callers[c].row)
    /\ QueueStep

\* complete_queue_item, called by a caller for the entry it was given.
complete_queue_item(c, success, error) ==
    LET id == conn.callers[c].row IN
    /\ conn.callers[c].pc = "returned"
    /\ id # 0
    /\ \A e \in queue.entries : e.id = id /\ ~success => e.attempts < MaxAttempts
    /\ queue' = complete_queue_item_body(queue, id, success, error)
    /\ conn' = [conn EXCEPT !.callers[c] = [pc |-> "idle", row |-> 0]]
    /\ call' = [op |-> "complete_queue_item", queue_id |-> id, success |-> success,
                error |-> error]
    /\ ret' = NoRet
    /\ QueueStep

QueueInit ==
    /\ images = {}
    /\ history = <<>>
    /\ seq = 0
    /\ call = NoCall
    /\ ret = NoRet
    /\ rowcount = [images |-> 0, history |-> 0]
    /\ conn = [state |-> "queue",
               callers |-> [c \in QueueCallers |-> [pc |-> "idle", row |-> 0]]]
    /\ pre = Db({}, <<>>, 0)
    /\ pick_in = NoPick
    /\ pick_out = NoPick
    /\ cfg = [tag |-> "none"]
    /\ vocabulary = <<>>
    /\ found = <<>>
    /\ cache = <<>>
    /\ queue = [entries |-> {}, seq |-> 0]
    /\ batch = [pc |-> "none"]
    /\ runs = <<>>
    /\ budget = 0
    /\ server = NewServer
    /\ limiter = NoLimiter
    /\ raising = {}
    /\ gate = NoGate

QueueNext ==
    \/ \E w \in QueueWords, l \in Lessons, p \in Priorities : add_to_queue_call(w, l, p)
    \/ \E c \in QueueCallers : get_next_queue_item_select(c)
    \/ \E c \in QueueCallers : get_next_queue_item(c)
    \/ \E c \in QueueCallers, success \in BOOLEAN, e \in Errors :
          complete_queue_item(c, success, e)

SpecQueue == QueueInit /\ [][QueueNext]_vars

----------------------------------------------------------------------------
(* Claims about the curation queue *)

Entry(q, id) == CHOOSE e \in q.entries : e.id = id

\* A call of get_next_queue_item returns an entry.
Returns(c) ==
    /\ conn.callers[c].pc = "selected"
    /\ conn'.callers[c].pc = "returned"

\* C21: get_next_queue_item claims atomically: the entry a caller gets is a
\* pending entry no other caller got since it became pending, it is the
\* pending entry of highest priority, oldest first, and it is 'processing'
\* when the call returns.
C21_DequeueClaimsAtomically ==
    [][\A c \in QueueCallers :
          /\ conn'.callers[c].pc = "selected" /\ conn.callers[c].pc # "selected" =>
                conn'.callers[c].row = FirstPending(queue.entries).id
          /\ Returns(c) =>
                /\ Entry(queue, ret'.val).status = "pending"
                /\ Entry(queue', ret'.val).status = "processing"
      ]_vars

\* A caller hands back the entry it was given.
Completes(c) ==
    /\ conn.callers[c].pc = "returned"
    /\ conn.callers[c].row # 0
    /\ conn'.callers[c].pc = "idle"

\* C22: complete_queue_item with success leaves the entry 'completed' with
\* its attempt count unchanged; with failure on a 'processing' entry it
\* leaves the entry 'pending' with one more attempt and the error recorded,
\* so that a later get_next_queue_item can return it again.
C22_CompleteSucceedsOrRequeues ==
    [][\A c \in QueueCallers :
          Completes(c) =>
              LET id == conn.callers[c].row
                  old == Entry(queue, id)
                  new == Entry(queue', id)
              IN  /\ call'.success =>
                        /\ new.status = "completed"
                        /\ new.attempts = old.attempts
                  /\ ~call'.success /\ old.status = "processing" =>
                        /\ new = [old EXCEPT !.status = "pending",
                                             !.attempts = old.attempts + 1,
                                             !.error_message = call'.error]
                        /\ new \in Pending(queue'.entries)
      ]_vars

\* An entry that failed once has been returned again.
C22_Witness ==
    /\ call.op = "get_next_queue_item"
    /\ ret.tag = "id"
    /\ \E e \in queue.entries :
          /\ e.id = ret.val
          /\ e.status = "processing"
          /\ e.attempts = 1
          /\ e.error_message \in Errors

Queued(q, word, lesson) ==
    \E e \in q.entries : e.word = word /\ e.lesson_id = lesson

\* C23: add_to_queue for a (word, lesson) pair that is already queued, in
\* any status, returns True and changes nothing: no second entry, and the
\* status, priority, attempts and error of the entry stay as they were.
C23_AddToQueueIdempotent ==
    [][call'.op = "add_to_queue" /\ Queued(queue, call'.word, call'.lesson_id) =>
          /\ queue' = queue
          /\ ret' = RetBool(TRUE)
      ]_vars

\* The pair of the last add_to_queue was there already, no longer pending
\* and with another priority.
C23_Witness ==
    /\ call.op = "add_to_queue"
    /\ \E e \in queue.entries :
          /\ e.word = call.word
          /\ e.lesson_id = call.lesson_id
          /\ e.status # "pending"
          /\ e.priority # call.priority
          /\ e.attempts = 1

----------------------------------------------------------------------------
(* ImageAPIClient.search: the providers, tried one after the other.        *)
(* pick_in holds the arguments and what each provider would answer,        *)
(* pick_out what the call gave back.                                        *)

MaxCount == 2       \* count, the number of results asked for
MaxPhotos == 2      \* photos in one provider's answer

\* self.clients, in the order _init_clients fills the dict
Providers == <<"pexels", "pixabay", "openverse">>
ProviderNames == {Providers[i] : i \in 1..Len(Providers)}
PriorityValues == {1, 2}

\* What a provider's search does: it raises, the HTTP status is not 200, or
\* the answer carries photos.
Responses ==
    {[kind |-> "raises", photos |-> <<>>], [kind |-> "status", photos |-> <<>>]}
        \cup {[kind |-> "ok", photos |-> p] : p \in SeqsUpTo(Urls, MaxPhotos)}

\* PexelsClient.search: [] unless the status is 200, else the parsed photos.
client_search(name, response) ==
    IF response.kind = "ok"
       THEN [i \in 1..Len(response.photos) |->
                [url |-> response.photos[i], source |-> name]]
       ELSE <<>>

\* for name, client in self.clients.items(): if sources and name not in sources
clients_to_use(enabled, sources) ==
    SelectSeq(Providers,
              LAMBDA n : n \in enabled /\ (sources = {} \/ n \in sources))

\* list.sort(key=priority): ascending, equal priorities keep their order
InsertByPriority(sorted, n, priority) ==
    LET before == SelectSeq(sorted, LAMBDA o : priority[o] <= priority[n])
        after  == SelectSeq(sorted, LAMBDA o : priority[o] > priority[n])
    IN  before \o <<n>> \o after

RECURSIVE SortByPriority(_, _)
SortByPriority(names, priority) ==
    IF names = <<>> THEN <<>>
    ELSE InsertByPriority(
             SortByPriority(SubSeq(names, 1, Len(names) - 1), priority),
             names[Len(names)], priority)

\* The loop without the except: a provider's exception leaves the search.
RECURSIVE search_no_failover(_, _, _, _)
search_no_failover(cs, responses, count, acc) ==
    IF cs = <<>> THEN acc
    ELSE LET name == Head(cs)
             asked == [acc EXCEPT !.queried = Append(@, name)]
         IN  IF responses[name].kind = "raises"
                THEN [asked EXCEPT !.raised = TRUE]
             ELSE LET more == [asked EXCEPT !.results =
                                  @ \o client_search(name, responses[name])]
                  IN  IF Len(more.results) >= count THEN more
                      ELSE search_no_failover(Tail(cs), responses, count, more)

\* The loop without the break: every provider is asked.
RECURSIVE search_every_provider(_, _, _, _)
search_every_provider(cs, responses, count, acc) ==
    IF cs = <<>> THEN acc
    ELSE LET name == Head(cs)
             asked == [acc EXCEPT !.queried = Append(@, name)]
         IN  IF responses[name].kind = "raises"
                THEN search_every_provider(Tail(cs), responses, count, asked)
             ELSE search_every_provider(Tail(cs), responses, count,
                      [asked EXCEPT !.results =
                          @ \o client_search(name, responses[name])])

\* for priority, name, client in clients_to_use: try ... except: continue
RECURSIVE search_failover(_, _, _, _)
search_failover(cs, responses, count, acc) ==
    IF cs = <<>> THEN acc
    ELSE LET name == Head(cs)
             asked == [acc EXCEPT !.queried = Append(@, name)]
         IN  IF responses[name].kind = "raises"
                THEN search_failover(Tail(cs), responses, count, asked)
             ELSE LET more == [asked EXCEPT !.results =
                                  @ \o client_search(name, responses[name])]
                  IN  IF Len(more.results) >= count THEN more
                      ELSE search_failover(Tail(cs), responses, count, more)

\* ImageAPIClient.search
search(enabled, priority, sources, responses, count) ==
    IF enabled = {}
       THEN [tag |-> "search", queried |-> <<>>, results |-> <<>>, raised |-> FALSE]
    ELSE LET done == search_failover(
                 SortByPriority(clients_to_use(enabled, sources), priority),
                 responses, count,
                 [tag |-> "search", queried |-> <<>>, results |-> <<>>,
                  raised |-> FALSE])
         IN  IF done.raised THEN done
             ELSE [done EXCEPT !.results = Take(@, count)]

\* The state of a call of a function that touches neither store nor batch.
Arguments(input) ==
    /\ images = {}
    /\ history = <<>>
    /\ seq = 0
    /\ call = NoCall
    /\ ret = NoRet
    /\ rowcount = [images |-> 0, history |-> 0]
    /\ conn = Closed
    /\ pre = Db({}, <<>>, 0)
    /\ pick_in = input
    /\ pick_out = NoPick
    /\ cfg = [tag |-> "none"]
    /\ vocabulary = <<>>
    /\ found = <<>>
    /\ cache = <<>>
    /\ queue = [entries |-> {}, seq |-> 0]
    /\ batch = [pc |-> "none"]
    /\ runs = <<>>
    /\ budget = 0
    /\ server = NewServer
    /\ limiter = NoLimiter
    /\ raising = {}
    /\ gate = NoGate

Result(output) ==
    /\ pick_out = NoPick
    /\ pick_out' = output
    /\ UNCHANGED <<images, history, seq, call, ret, rowcount, conn, pre, pick_in>>
    /\ UNCHANGED <<batch_vars, other_vars>>

SearchInit ==
    \E enabled \in {{}, {"pexels", "openverse"}, ProviderNames},
       priority \in [ProviderNames -> PriorityValues],
       sources \in {{}, {"pixabay", "openverse"}},
       responses \in [ProviderNames -> Responses],
       count \in 1..MaxCount :
        Arguments([tag |-> "search", enabled |-> enabled, priority |-> priority,
                   sources |-> sources, responses |-> responses, count |-> count])

search_call ==
    /\ pick_in.tag = "search"
    /\ Result(search(pick_in.enabled, pick_in.priority, pick_in.sources,
                     pick_in.responses, pick_in.count))

SearchNext == search_call

SpecSearch == SearchInit /\ [][SearchNext]_vars

----------------------------------------------------------------------------
(* Claims about ImageAPIClient.search *)

\* The providers the call may ask, in the order it asks them.
Order == SortByPriority(clients_to_use(pick_in.enabled, pick_in.sources),
                        pick_in.priority)

Fails(name) == pick_in.responses[name].kind # "ok"

\* What the first k providers of the order gave, one after the other.
RECURSIVE Gathered(_)
Gathered(k) ==
    IF k = 0 THEN <<>>
    ELSE Gathered(k - 1) \o
         [i \in 1..Len(pick_in.responses[Order[k]].photos) |->
             [url |-> pick_in.responses[Order[k]].photos[i], source |-> Order[k]]]

\* C24: a provider that raises or answers without success contributes
\* nothing and does not end the search: the providers after it are still
\* asked, in priority order, and no exception reaches the caller; the
\* results come only from providers that answered.
C24_FailingProviderIsSkipped ==
    pick_out.tag = "search" =>
        /\ ~pick_out.raised
        /\ IsPrefix(pick_out.queried, Order)
        /\ \A k \in 1..Len(pick_out.queried) :
              Fails(Order[k]) /\ k < Len(Order) => Len(pick_out.queried) > k
        /\ \A i \in 1..Len(pick_out.results) : ~Fails(pick_out.results[i].source)

\* The first provider raised, the second answered without success, the
\* third answered: its photos are the results.
C24_Witness ==
    /\ pick_out.tag = "search"
    /\ Len(Order) = 3
    /\ pick_in.responses[Order[1]].kind = "raises"
    /\ pick_in.responses[Order[2]].kind = "status"
    /\ pick_out.queried = Order
    /\ pick_out.results # <<>>
    /\ \A i \in 1..Len(pick_out.results) : pick_out.results[i].source = Order[3]

----------------------------------------------------------------------------
(* The scoring branch of search_and_evaluate, called on its own: pick_in    *)
(* holds the images found and what the vision model would answer for each,  *)
(* pick_out the scores and the scoring calls that were made.                *)

MaxImages == 2      \* images found for the word

\* self.vision_client: None, a client without a model, a client with one
VisionClients == {"none", "no_model", "model"}

\* What vision_client.evaluate_image does for an image: it raises, it
\* answers a text without a number, or a text with a number in it.
Evaluations ==
    {[kind |-> "raises", score |-> 0], [kind |-> "text", score |-> 0]}
        \cup {[kind |-> "number", score |-> s] : s \in {0, 8, 10}}

\* _evaluate_image: the first number of the answer, 0.5 without one
_evaluate_image(answer) ==
    IF answer.kind = "number" THEN answer.score ELSE neutral_score

NoCalls(imgs) ==
    [tag |-> "scores", calls |-> <<>>,
     scored |-> [i \in 1..Len(imgs) |-> [url |-> i, score |-> neutral_score]]]

\* The scoring branch without the test of should_throttle.
score_images_unthrottled(imgs, use_vision, client, throttled) ==
    IF use_vision /\ client = "model"
       THEN [tag |-> "scores",
             calls |-> [i \in 1..Len(imgs) |-> i],
             scored |-> [i \in 1..Len(imgs) |->
                 [url |-> i,
                  score |-> IF imgs[i].kind = "raises" THEN failed_score
                            ELSE _evaluate_image(imgs[i])]]]
       ELSE NoCalls(imgs)

\* if use_vision and self.vision_client and self.vision_client.has_vision_model()
score_images(imgs, use_vision, client, throttled) ==
    IF use_vision /\ client = "model"
       THEN IF throttled
               THEN NoCalls(imgs)
               ELSE [tag |-> "scores",
                     calls |-> [i \in 1..Len(imgs) |-> i],
                     scored |-> [i \in 1..Len(imgs) |->
                         [url |-> i,
                          score |-> IF imgs[i].kind = "raises" THEN failed_score
                                    ELSE _evaluate_image(imgs[i])]]]
       ELSE NoCalls(imgs)

ScoresInit ==
    \E imgs \in SeqsUpTo(Evaluations, MaxImages) \ {<<>>},
       use_vision \in BOOLEAN, client \in VisionClients, throttled \in BOOLEAN :
        Arguments([tag |-> "scores", images |-> imgs, use_vision |-> use_vision,
                   vision_client |-> client, throttled |-> throttled])

score_images_call ==
    /\ pick_in.tag = "scores"
    /\ Result(score_images(pick_in.images, pick_in.use_vision,
                           pick_in.vision_client, pick_in.throttled))

ScoresNext == score_images_call

SpecScores == ScoresInit /\ [][ScoresNext]_vars

----------------------------------------------------------------------------
(* Claims about the scoring branch *)

C27_FailedScoringIsNeutral ==
    /\ pick_out.tag = "scores"
    /\ pick_out.calls # <<>>
    => /\ pick_out.calls = [i \in 1..Len(pick_in.images) |-> i]
       /\ \A i \in 1..Len(pick_in.images) :
             /\ pick_in.images[i].kind # "number" =>
                   pick_out.scored[i].score = neutral_score
             /\ pick_in.images[i].kind = "number" =>
                   pick_out.scored[i].score = pick_in.images[i].score

----------------------------------------------------------------------------
(* GPUManager.should_throttle.  It runs nvidia-smi twice: once for the list *)
(* it reads the utilization from, once more inside select_best_gpu.  A      *)
(* reading is the utilization of the units in the order of their indexes,   *)
(* empty when nvidia-smi failed.                                            *)

MaxUnits == 2           \* GPUs nvidia-smi lists

throttle_threshold == 75

Utilizations == {10, 75, 90}
Readings == SeqsUpTo(Utilizations, MaxUnits)
None == 0 - 1

\* get_gpu_info: [] without nvidia-smi, else what the query gave
get_gpu_info(nvidia, reading) == IF nvidia THEN reading ELSE <<>>

\* min(gpus, key=utilization)['index']: the first of the least utilized
select_best_gpu(gpus) ==
    IF gpus = <<>> THEN None
    ELSE (CHOOSE i \in 1..Len(gpus) :
              \A j \in 1..Len(gpus) :
                  gpus[i] < gpus[j] \/ (gpus[i] = gpus[j] /\ i <= j)) - 1

\* current_gpu['utilization'] > self.throttle_threshold
exceeds(utilization) == utilization > throttle_threshold

should_throttle(nvidia, first, second) ==
    IF ~nvidia THEN FALSE
    ELSE LET gpus == get_gpu_info(nvidia, first)
         IN  IF gpus = <<>> THEN FALSE
             ELSE LET best_gpu_idx == select_best_gpu(get_gpu_info(nvidia, second))
                  IN  IF best_gpu_idx = None THEN FALSE
                      ELSE IF best_gpu_idx + 1 > Len(gpus) THEN FALSE
                      ELSE exceeds(gpus[best_gpu_idx + 1])

ThrottleInit ==
    \E nvidia \in BOOLEAN, first \in Readings, second \in Readings :
        Arguments([tag |-> "throttle", nvidia |-> nvidia,
                   first |-> first, second |-> second])

should_throttle_call ==
    /\ pick_in.tag = "throttle"
    /\ Result([tag |-> "throttle",
               throttle |-> should_throttle(pick_in.nvidia, pick_in.first,
                                            pick_in.second)])

ThrottleNext == should_throttle_call

SpecThrottle == ThrottleInit /\ [][ThrottleNext]_vars

----------------------------------------------------------------------------
(* Claims about should_throttle *)

\* The utilization of the least utilized unit of a reading.
Least(reading) ==
    CHOOSE u \in {reading[i] : i \in 1..Len(reading)} :
        \A i \in 1..Len(reading) : u <= reading[i]

Observed ==
    pick_in.nvidia /\ pick_in.first # <<>> /\ pick_in.second # <<>>

\* C29: should_throttle returns false when the utilization cannot be
\* observed, and when it is observed it returns true exactly when the
\* utilization of the least utilized unit, in one of the readings it took,
\* is above the threshold.
C29_ThrottleIffLeastUtilizedAbove ==
    pick_out.tag = "throttle" =>
        /\ ~Observed => ~pick_out.throttle
        /\ Observed =>
              \/ pick_out.throttle = (Least(pick_in.first) > throttle_threshold)
              \/ pick_out.throttle = (Least(pick_in.second) > throttle_threshold)

\* The same for a call whose two readings agree.
C29_OneReading ==
    pick_out.tag = "throttle" /\ pick_in.first = pick_in.second =>
        /\ ~Observed => ~pick_out.throttle
        /\ Observed => pick_out.throttle = (Least(pick_in.first) > throttle_threshold)

----------------------------------------------------------------------------
(* Waiting for the GPU.  BatchCurator.process_word waits in                 *)
(* wait_for_available(check_interval, max_wait), ImageCurator.evaluate_batch *)
(* in _wait_for_gpu.  gate.gpu is what nvidia-smi reads now, in both         *)
(* readings of one should_throttle; it changes as the load on the GPU does, *)
(* or stays as it is.                                                       *)

check_interval == 2     \* seconds
max_wait == 120         \* seconds

NewGate(nvidia, reading) ==
    [nvidia |-> nvidia, gpu |-> reading,
     batch |-> [pc |-> "idle", elapsed |-> 0, available |-> TRUE],
     curator |-> [pc |-> "idle"]]

GateStep ==
    /\ UNCHANGED <<images, history, seq, call, ret, rowcount, conn, pre>>
    /\ UNCHANGED <<pick_vars, batch_vars, server, limiter, raising>>

\* The load on the GPU changes.
gpu_changes(reading) ==
    /\ gate.gpu # reading
    /\ gate' = [gate EXCEPT !.gpu = reading]
    /\ GateStep

\* process_word: if self.gpu_manager.should_throttle(): wait, else go on
process_word_gate ==
    /\ gate.batch.pc = "idle"
    /\ gate' = [gate EXCEPT !.batch =
          IF should_throttle(gate.nvidia, gate.gpu, gate.gpu)
             THEN [pc |-> "waiting", elapsed |-> 0, available |-> FALSE]
             ELSE [pc |-> "proceeded", elapsed |-> 0, available |-> TRUE]]
    /\ GateStep

\* wait_for_available: one look at the GPU; True when it is free, False when
\* max_wait is over, else check_interval seconds of sleep.
wait_for_available ==
    /\ gate.batch.pc = "waiting"
    /\ gate' = [gate EXCEPT !.batch =
          IF ~should_throttle(gate.nvidia, gate.gpu, gate.gpu)
             THEN [@ EXCEPT !.pc = "proceeded", !.available = TRUE]
          ELSE IF @.elapsed + check_interval >= max_wait
             THEN [@ EXCEPT !.pc = "proceeded", !.elapsed = max_wait]
          ELSE [@ EXCEPT !.elapsed = @ + check_interval]]
    /\ GateStep

\* The word is done; the next one comes to the gate.
process_word_done ==
    /\ gate.batch.pc = "proceeded"
    /\ gate' = [gate EXCEPT !.batch = [pc |-> "idle", elapsed |-> 0, available |-> TRUE]]
    /\ GateStep

\* _wait_for_gpu: while self.gpu_manager.should_throttle(): sleep
_wait_for_gpu ==
    /\ gate.curator.pc \in {"idle", "sleeping"}
    /\ gate' = [gate EXCEPT !.curator.pc =
          IF should_throttle(gate.nvidia, gate.gpu, gate.gpu)
             THEN "sleeping" ELSE "proceeded"]
    /\ GateStep

\* evaluate_single is done; the next item comes to the gate.
evaluate_single_done ==
    /\ gate.curator.pc = "proceeded"
    /\ gate' = [gate EXCEPT !.curator.pc = "idle"]
    /\ GateStep

GateInit ==
    /\ images = {}
    /\ history = <<>>
    /\ seq = 0
    /\ call = NoCall
    /\ ret = NoRet
    /\ rowcount = [images |-> 0, history |-> 0]
    /\ conn = Closed
    /\ pre = Db({}, <<>>, 0)
    /\ pick_in = NoPick
    /\ pick_out = NoPick
    /\ cfg = [tag |-> "none"]
    /\ vocabulary = <<>>
    /\ found = <<>>
    /\ cache = <<>>
    /\ queue = [entries |-> {}, seq |-> 0]
    /\ batch = [pc |-> "none"]
    /\ runs = <<>>
    /\ budget = 0
    /\ server = NewServer
    /\ limiter = NoLimiter
    /\ raising = {}
    /\ gate \in {NewGate(n, r) : n \in BOOLEAN, r \in Readings}

GateNext ==
    \/ \E r \in Readings : gpu_changes(r)
    \/ process_word_gate
    \/ wait_for_available
    \/ process_word_done
    \/ _wait_for_gpu
    \/ evaluate_single_done

SpecGate == GateInit /\ [][GateNext]_vars

\* A sleep ends and a caller that can go on does.
SpecGateFair ==
    /\ SpecGate
    /\ WF_vars(wait_for_available)
    /\ WF_vars(_wait_for_gpu)

----------------------------------------------------------------------------
(* Claims about waiting for the GPU *)

\* C28: no wait on the GPU goes on for ever: a caller that waits, in
\* process_word or in _wait_for_gpu, goes on after a bounded time whether
\* the GPU became free or not.
C28_EveryGateWaitEnds ==
    /\ (gate.batch.pc = "waiting") ~> (gate.batch.pc = "proceeded")
    /\ (gate.curator.pc = "sleeping") ~> (gate.curator.pc = "proceeded")

\* The wait of process_word alone ends, within max_wait.
C28_BatchWaitEnds ==
    /\ (gate.batch.pc = "waiting") ~> (gate.batch.pc = "proceeded")
    /\ [](gate.batch.elapsed <= max_wait)

----------------------------------------------------------------------------
(* ImageCache: one file per key, holding the results and the time they were *)
(* cached.  Here cache holds the files and the clock, in hours; call and    *)
(* ret the last operation and what it returned; pick_in the get before it.  *)

MaxHours == 3       \* the clock stops here

Queries == {"gato", "Gato", "sol"}
MaxAges == {1, 2}   \* max_age_hours
CachedResults == {<<>>, <<"u1">>, <<"u1", "u2">>}

\* A key that keeps the case of the query.
_get_cache_key_exact(query) == query

\* query.lower() of _get_cache_key, for the source 'all'
_get_cache_key(query) == IF query = "Gato" THEN "gato" ELSE query

Keys == {_get_cache_key(q) : q \in Queries}

NoFile == [exists |-> FALSE, cached_at |-> 0, results |-> <<>>]
Miss == [tag |-> "None", val |-> <<>>]
Hit(results) == [tag |-> "results", val |-> results]

\* A get that unlinks the file it finds expired.
get_and_evict(c, query, max_age_hours) ==
    LET file == c.files[_get_cache_key(query)]
    IN  IF ~file.exists THEN [ret |-> Miss, files |-> c.files]
        ELSE IF c.now - file.cached_at > max_age_hours
           THEN [ret |-> Miss,
                 files |-> [c.files EXCEPT ![_get_cache_key(query)] = NoFile]]
        ELSE [ret |-> Hit(file.results), files |-> c.files]

\* ImageCache.get: what it returns and the files it leaves
get(c, query, max_age_hours) ==
    LET file == c.files[_get_cache_key(query)]
    IN  IF ~file.exists THEN [ret |-> Miss, files |-> c.files]
        ELSE IF c.now - file.cached_at > max_age_hours
           THEN [ret |-> Miss, files |-> c.files]
        ELSE [ret |-> Hit(file.results), files |-> c.files]

CacheStep ==
    /\ UNCHANGED <<images, history, seq, rowcount, conn, pre, pick_out>>
    /\ UNCHANGED <<other_vars, cfg, vocabulary, found, queue, batch, runs, budget>>

get_call(query, max_age_hours) ==
    /\ cache' = [cache EXCEPT !.files = get(cache, query, max_age_hours).files]
    /\ call' = [op |-> "get", query |-> query, max_age_hours |-> max_age_hours]
    /\ ret' = get(cache, query, max_age_hours).ret
    /\ pick_in' = [tag |-> "get", call |-> call, ret |-> ret]
    /\ CacheStep

\* ImageCache.set
set_call(query, results) ==
    /\ cache' = [cache EXCEPT !.files[_get_cache_key(query)] =
                    [exists |-> TRUE, cached_at |-> cache.now, results |-> results]]
    /\ call' = [op |-> "set", query |-> query, results |-> results]
    /\ ret' = NoRet
    /\ UNCHANGED pick_in
    /\ CacheStep

\* ImageCache.clear
clear_call ==
    /\ cache' = [cache EXCEPT !.files = [k \in Keys |-> NoFile]]
    /\ call' = [op |-> "clear"]
    /\ ret' = NoRet
    /\ UNCHANGED pick_in
    /\ CacheStep

\* An hour passes.
hour_passes ==
    /\ cache.now < MaxHours
    /\ cache' = [cache EXCEPT !.now = @ + 1]
    /\ UNCHANGED <<call, ret, pick_in>>
    /\ CacheStep

CacheInit ==
    /\ images = {}
    /\ history = <<>>
    /\ seq = 0
    /\ call = NoCall
    /\ ret = NoRet
    /\ rowcount = [images |-> 0, history |-> 0]
    /\ conn = Closed
    /\ pre = Db({}, <<>>, 0)
    /\ pick_in = NoPick
    /\ pick_out = NoPick
    /\ cfg = [tag |-> "none"]
    /\ vocabulary = <<>>
    /\ found = <<>>
    /\ cache = [files |-> [k \in Keys |-> NoFile], now |-> 0]
    /\ queue = [entries |-> {}, seq |-> 0]
    /\ batch = [pc |-> "none"]
    /\ runs = <<>>
    /\ budget = 0
    /\ server = NewServer
    /\ limiter = NoLimiter
    /\ raising = {}
    /\ gate = NoGate

CacheNext ==
    \/ \E q \in Queries, a \in MaxAges : get_call(q, a)
    \/ \E q \in Queries, r \in CachedResults : set_call(q, r)
    \/ clear_call
    \/ hour_passes

SpecCache == CacheInit /\ [][CacheNext]_vars

----------------------------------------------------------------------------
(* Claims about ImageCache *)

\* The file of the query of the call that is made in this step.
FileAsked == cache.files[_get_cache_key(call'.query)]

\* This step is a call of get.
Gets ==
    /\ call'.op = "get"
    /\ pick_in' = [tag |-> "get", call |-> call, ret |-> ret]
    /\ cache'.now = cache.now

\* C30: get answers with a miss for an entry older than max_age_hours and
\* leaves the stored entry as it is; a get after it that allows a greater
\* age returns the stored results.
C30_ExpiredEntryIsMissedNotRemoved ==
    [][Gets /\ FileAsked.exists =>
          /\ cache'.files = cache.files
          /\ cache.now - FileAsked.cached_at > call'.max_age_hours => ret' = Miss
          /\ cache.now - FileAsked.cached_at <= call'.max_age_hours =>
                ret' = Hit(FileAsked.results)
      ]_vars

\* A get missed the entry of a query, and the next get, allowing a greater
\* age, returned what was stored.
C30_Witness ==
    /\ call.op = "get"
    /\ pick_in.tag = "get"
    /\ pick_in.call.op = "get"
    /\ _get_cache_key(pick_in.call.query) = _get_cache_key(call.query)
    /\ pick_in.call.max_age_hours < call.max_age_hours
    /\ pick_in.ret = Miss
    /\ cache.files[_get_cache_key(call.query)].exists
    /\ ret = Hit(cache.files[_get_cache_key(call.query)].results)
    /\ ret.val # <<>>

\* This step is a call of set.
Sets == call'.op = "set" /\ cache'.now = cache.now

\* C31: set(q, r) leaves under the key of q exactly r and touches no other
\* key, replacing what an earlier set stored there; a get that follows it
\* for a query equal to q up to letter case, allowing the age of the entry,
\* returns exactly r.
C31_SetThenGetReturnsPayload ==
    [][/\ Sets =>
             cache'.files = [cache.files EXCEPT ![_get_cache_key(call'.query)] =
                 [exists |-> TRUE, cached_at |-> cache.now, results |-> call'.results]]
       /\ /\ Gets
          /\ call.op = "set"
          /\ \/ call'.query = call.query
             \/ {call'.query, call.query} = {"gato", "Gato"}
          /\ cache.now - cache.files[_get_cache_key(call.query)].cached_at
                <= call'.max_age_hours
          => ret' = Hit(call.results)
      ]_vars

\* set stored results for "Gato" over earlier, different results, and the
\* get for "gato" that followed returned them.
C31_Witness ==
    /\ call = [op |-> "get", query |-> "gato", max_age_hours |-> 2]
    /\ pick_in.tag = "get"
    /\ pick_in.call.op = "set"
    /\ pick_in.call.query = "Gato"
    /\ pick_in.call.results = <<"u1", "u2">>
    /\ ret = Hit(<<"u1", "u2">>)
    /\ cache.files["sol"].exists
    /\ cache.files["sol"].results = <<"u1">>
    /\ cache.now - cache.files["gato"].cached_at = 2

----------------------------------------------------------------------------
(* Further claims about the store *)

\* C32: add_image for a (word, url) pair that has a record returns the id
\* of that record, and the audit entries written for the pair before still
\* reference a record of the store.
C32_AddImageKeepsId ==
    [][\A r \in images :
          (call'.op = "add_image" /\ r.word = call'.word /\ r.url = call'.url) =>
              /\ ret' = RetId(r.id)
              /\ \A i \in 1..Len(history) :
                    history[i].image_id = r.id =>
                        \E kept \in images' : kept.id = history[i].image_id
      ]_vars

\* C33: reject_image, verify_image, update_image and delete_image with an
\* id that has no record return False and write no audit entry.
C33_MissingIdFailsWithoutAudit ==
    [][(/\ call'.op \in {"reject_image", "verify_image", "update_image", "delete_image"}
        /\ ~Exists(Committed, call'.image_id)) =>
          /\ ret' = RetBool(FALSE)
          /\ history' = history
      ]_vars

----------------------------------------------------------------------------
(* The server with several clients.  Each client's messages are handled    *)
(* one after the other, the handlers of different clients and the run       *)
(* tasks interleave at the awaits that can suspend: the broadcasts (a       *)
(* client.send each), and whatever the run awaits.  initialize() and        *)
(* shutdown() suspend nowhere.  Here server holds the flags, the clients'   *)
(* handlers and every task that create_task made.                           *)

MaxTasks == 2       \* tasks created by create_task

Clients == {"a", "b"}
Tasks == 1..MaxTasks

NewTaskServer ==
    [is_running |-> FALSE, is_paused |-> FALSE, _curator_task |-> 0,
     tasks |-> [t \in Tasks |-> "none"],
     clients |-> [c \in Clients |-> "idle"]]

TaskStep ==
    /\ UNCHANGED <<images, history, seq, call, ret, rowcount, conn, pre>>
    /\ UNCHANGED <<pick_vars, batch_vars, limiter, raising, gate>>

\* _handle_start up to its broadcasts: the test of is_running, the new
\* curator, initialize, the flags.
_handle_start_flags(c, initialized) ==
    /\ server.clients[c] = "idle"
    /\ server' =
          IF server.is_running \/ ~initialized THEN server
          ELSE [server EXCEPT !.is_running = TRUE, !.is_paused = FALSE,
                              !.clients[c] = "broadcast"]
    /\ TaskStep

\* _handle_start after its broadcasts: asyncio.create_task(self._run_curator())
_handle_start_create_task(c) ==
    /\ server.clients[c] = "broadcast"
    /\ \E t \in Tasks :
          /\ server.tasks[t] = "none"
          /\ \A o \in Tasks : o < t => server.tasks[o] # "none"
          /\ server' = [server EXCEPT !._curator_task = t, !.tasks[t] = "running",
                                      !.clients[c] = "idle"]
    /\ TaskStep

\* task.cancel(): the task is left running until it is scheduled again
cancel(tasks, t) ==
    IF t # 0 /\ tasks[t] = "running" THEN [tasks EXCEPT ![t] = "cancelling"]
    ELSE tasks

\* _handle_stop up to its broadcasts, after which it changes nothing
_handle_stop_cancel(c) ==
    /\ server.clients[c] = "idle"
    /\ server' =
          IF ~server.is_running THEN server
          ELSE [server EXCEPT !.tasks = cancel(@, server._curator_task),
                              !.is_running = FALSE, !.is_paused = FALSE]
    /\ TaskStep

\* _handle_pause and _handle_resume up to their broadcasts
_handle_pause_flag(c) ==
    /\ server.clients[c] = "idle"
    /\ server.is_running /\ ~server.is_paused
    /\ server' = [server EXCEPT !.is_paused = TRUE]
    /\ TaskStep

_handle_resume_flag(c) ==
    /\ server.clients[c] = "idle"
    /\ server.is_running /\ server.is_paused
    /\ server' = [server EXCEPT !.is_paused = FALSE]
    /\ TaskStep

\* _run_curator: run() has returned or CancelledError has arrived, and the
\* finally clause is reached.
_run_curator_finally(t) ==
    /\ server.tasks[t] \in {"running", "cancelling"}
    /\ server' = [server EXCEPT !.tasks[t] = "done", !.is_running = FALSE]
    /\ TaskStep

TasksInit ==
    /\ images = {}
    /\ history = <<>>
    /\ seq = 0
    /\ call = NoCall
    /\ ret = NoRet
    /\ rowcount = [images |-> 0, history |-> 0]
    /\ conn = Closed
    /\ pre = Db({}, <<>>, 0)
    /\ pick_in = NoPick
    /\ pick_out = NoPick
    /\ cfg = [tag |-> "none"]
    /\ vocabulary = <<>>
    /\ found = <<>>
    /\ cache = <<>>
    /\ queue = [entries |-> {}, seq |-> 0]
    /\ batch = [pc |-> "none"]
    /\ runs = <<>>
    /\ budget = 0
    /\ server = NewTaskServer
    /\ limiter = NoLimiter
    /\ raising = {}
    /\ gate = NoGate

TasksNext ==
    \/ \E c \in Clients, ok \in BOOLEAN : _handle_start_flags(c, ok)
    \/ \E c \in Clients : _handle_start_create_task(c)
    \/ \E c \in Clients : _handle_stop_cancel(c)
    \/ \E c \in Clients : _handle_pause_flag(c)
    \/ \E c \in Clients : _handle_resume_flag(c)
    \/ \E t \in Tasks : _run_curator_finally(t)

SpecTasks == TasksInit /\ [][TasksNext]_vars

\* The tasks whose run is in progress and has not been cancelled.
Running == {t \in Tasks : server.tasks[t] = "running"}

\* C34: on one server at most one run task is active at any time, and
\* is_running is true whenever one is, however the START and STOP messages
\* of the clients interleave with the end or the cancellation of a task.
C34_OneRunTaskAndRunningFlag ==
    /\ Cardinality(Running) <= 1
    /\ Running # {} => server.is_running

\* ---------------------------------------------------------------------------
\* Further claims about the control server and the batch run.

\* The run is paused: PAUSE was accepted and neither RESUME nor STOP since.
Paused(s) == s.is_running /\ s.is_paused

\* C35: while the server is paused, the batch run starts no further word
\* and writes nothing to the store: a step taken between an accepted PAUSE
\* and the next RESUME or STOP leaves the image records and the audit log
\* as they were and does not enter the search of a word.
C35_PausedRunDoesNothing ==
    [][Paused(server) /\ Paused(server')
          => /\ images' = images
             /\ history' = history
             /\ ~(batch.pc # "search" /\ batch'.pc = "search")]_vars

\* C36: the 'completed' flag of the summary a run returns is true exactly
\* when every word of the filtered list was processed, and false exactly
\* when a stop request left at least one word unprocessed; a stop request
\* that arrives while the last word is in flight included.
C36_CompletedIffEveryWordProcessed ==
    (batch.pc = "returned" /\ batch.summary.tag = "summary") =>
        (batch.summary.completed
            <=> batch.summary.processed = Len(batch.to_process))

\* C37: the batch run only inserts queue entries and never claims or
\* completes one: every entry of the queue is 'pending' with attempts 0 at
\* every point of a run, and when run has returned its summary every word
\* of the filtered list has its entry.
C37_RunOnlyEnqueues ==
    /\ \A e \in queue.entries : e.status = "pending" /\ e.attempts = 0
    /\ (batch.pc = "returned" /\ batch.summary.tag = "summary") =>
          \A i \in 1..Len(batch.to_process) :
              \E e \in queue.entries :
                  /\ e.word = batch.to_process[i]
                  /\ e.lesson_id = lesson_id

\* A run that processed both of its words, one with success, has returned.
C37_Witness ==
    /\ batch.pc = "returned"
    /\ batch.summary.tag = "summary"
    /\ Len(batch.to_process) = 2
    /\ batch.summary.processed = 2
    /\ batch.summary.successful >= 1
    /\ Cardinality(queue.entries) = 2

\* C38: in a dry run no step changes the image records, the audit log or
\* the search cache, the run never waits for a search (with its scoring) or
\* for a download, and every word it visits is counted as successful.
C38_DryRunWritesNothing ==
    [][cfg.dry_run =>
          /\ images' = images
          /\ history' = history
          /\ cache' = cache
          /\ batch'.pc \notin {"search", "download"}
          /\ batch'.progress.failed = 0
          /\ batch'.progress.successful = batch'.progress.processed]_vars

\* A dry run over two words, of which the providers hold images, has
\* returned with both counted as successful.
C38_Witness ==
    /\ cfg.dry_run
    /\ batch.pc = "returned"
    /\ batch.summary.tag = "summary"
    /\ batch.summary.processed = 2
    /\ batch.summary.successful = 2
    /\ found["w1"] # <<>>
    /\ images = {}
    /\ history = <<>>

----------------------------------------------------------------------------
(* search_and_evaluate over the file cache and the clock *)

MaxClock == 36      \* the clock of these runs stops here, in hours

default_max_age_hours == 24

\* What the providers hold for a key in these runs.
Holdings ==
    {<<>>,
     <<Image("u1", [raises |-> FALSE, score |-> 10])>>,
     <<Image("u1", [raises |-> TRUE, score |-> 0]),
       Image("u2", [raises |-> FALSE, score |-> 10])>>}

\* search_and_evaluate after the cache: search_for_word, the scoring, the
\* sort, cache.set and the return.
search_and_score(c, query, imgs, args) ==
    LET images_found == Take(imgs, args.search_count)
        evaluates == args.use_vision /\ has_vision_model /\ ~args.throttled
        sorted == SortDesc(scored_results(images_found, args.use_vision,
                                          args.throttled), "score")
    IN  IF images_found = <<>>
           THEN [results |-> <<>>, files |-> c.files, searched |-> TRUE,
                 scored |-> 0]
        ELSE [results |-> Take(sorted, args.return_count),
              files |-> [c.files EXCEPT ![_get_cache_key(query)] =
                            [exists |-> TRUE, cached_at |-> c.now,
                             results |-> sorted]],
              searched |-> TRUE,
              scored |-> IF evaluates THEN Len(images_found) ELSE 0]

\* A search_and_evaluate that takes the cached candidates only when it
\* would not score them itself.
search_and_evaluate_rescoring(c, query, imgs, args) ==
    LET cached == get(c, query, default_max_age_hours).ret
    IN  IF /\ args.use_cache /\ cached.tag = "results" /\ cached.val # <<>>
           /\ ~(args.use_vision /\ ~args.throttled)
           THEN [results |-> Take(cached.val, args.return_count),
                 files |-> c.files, searched |-> FALSE, scored |-> 0]
        ELSE search_and_score(c, query, imgs, args)

\* search_and_evaluate with the cache as ImageCache keeps it: the results
\* it returns, the files it leaves, whether search_for_word was called and
\* how many times _evaluate_image was.
search_and_evaluate_cached(c, query, imgs, args) ==
    LET cached == get(c, query, default_max_age_hours).ret
    IN  IF args.use_cache /\ cached.tag = "results" /\ cached.val # <<>>
           THEN [results |-> Take(cached.val, args.return_count),
                 files |-> c.files, searched |-> FALSE, scored |-> 0]
        ELSE search_and_score(c, query, imgs, args)

\* The words that are asked for, equal up to letter case.
EvaluateQueries == {"gato", "Gato"}

\* The arguments of a call that process_word or another caller makes.
EvaluateArgs ==
    [use_cache : BOOLEAN, use_vision : BOOLEAN, throttled : BOOLEAN,
     search_count : {candidates_per_word}, return_count : 1..candidates_per_word]

search_and_evaluate_call(query, args) ==
    LET out == search_and_evaluate_cached(cache, query,
                                          found[_get_cache_key(query)], args)
    IN  /\ cache' = [cache EXCEPT !.files = out.files]
        /\ call' = [op |-> "search_and_evaluate", query |-> query, args |-> args]
        /\ pick_out' = [results |-> out.results, searched |-> out.searched,
                        scored |-> out.scored]
        /\ pick_in' = IF call = NoCall THEN NoCall
                       ELSE [op |-> call.op, query |-> call.query,
                             use_vision |-> call.args.use_vision,
                             throttled |-> call.args.throttled]
        /\ UNCHANGED <<images, history, seq, ret, rowcount, conn, pre>>
        /\ UNCHANGED <<other_vars, cfg, vocabulary, found, queue, batch, runs, budget>>

\* Twelve hours pass.
half_day_passes ==
    /\ cache.now + 12 <= MaxClock
    /\ cache' = [cache EXCEPT !.now = @ + 12]
    /\ UNCHANGED <<images, history, seq, call, ret, rowcount, conn, pre, pick_vars>>
    /\ UNCHANGED <<other_vars, cfg, vocabulary, found, queue, batch, runs, budget>>

EvaluateInit ==
    /\ images = {}
    /\ history = <<>>
    /\ seq = 0
    /\ call = NoCall
    /\ ret = NoRet
    /\ rowcount = [images |-> 0, history |-> 0]
    /\ conn = Closed
    /\ pre = Db({}, <<>>, 0)
    /\ pick_in = NoCall
    /\ pick_out = NoPick
    /\ cfg = [tag |-> "none"]
    /\ vocabulary = <<>>
    /\ \E h \in Holdings : found = [k \in Keys |-> h]
    /\ cache = [files |-> [k \in Keys |-> NoFile], now |-> 0]
    /\ queue = [entries |-> {}, seq |-> 0]
    /\ batch = [pc |-> "none"]
    /\ runs = <<>>
    /\ budget = 0
    /\ server = NewServer
    /\ limiter = NoLimiter
    /\ raising = {}
    /\ gate = NoGate

EvaluateNext ==
    \/ \E q \in EvaluateQueries, args \in EvaluateArgs :
          search_and_evaluate_call(q, args)
    \/ half_day_passes

SpecEvaluate == EvaluateInit /\ [][EvaluateNext]_vars

\* This step is a call of search_and_evaluate.
Evaluates == call'.op = "search_and_evaluate" /\ cache'.now = cache.now

\* The file of the query that is asked for in this step.
FileEvaluated == cache.files[_get_cache_key(call'.query)]

\* The call of this step finds a fresh entry with candidates in the cache.
CacheHit ==
    /\ call'.args.use_cache
    /\ FileEvaluated.exists
    /\ cache.now - FileEvaluated.cached_at <= default_max_age_hours
    /\ FileEvaluated.results # <<>>

\* C39: on a cache hit search_and_evaluate makes no provider search and no
\* scoring call and returns the cached candidates with their cached scores,
\* whatever use_vision and the GPU gate are; a call that misses while
\* throttled stores the neutral score for every candidate, which the later
\* calls within the maximum age therefore return.
C39_CacheHitReturnsCachedScores ==
    [][Evaluates =>
          /\ CacheHit =>
                /\ ~pick_out'.searched
                /\ pick_out'.scored = 0
                /\ pick_out'.results =
                       Take(FileEvaluated.results, call'.args.return_count)
                /\ cache' = cache
          /\ (~CacheHit /\ pick_out'.results # <<>> /\ call'.args.throttled) =>
                LET file == cache'.files[_get_cache_key(call'.query)]
                IN  /\ file.exists
                    /\ file.cached_at = cache.now
                    /\ Len(file.results) >= Len(pick_out'.results)
                    /\ \A i \in 1..Len(file.results) :
                           file.results[i].score = neutral_score
      ]_vars

\* A call with the vision model and without throttling returned from the
\* cache the neutral scores that the call before it, throttled, had stored a
\* day earlier, for an image the model rates higher.
C39_Witness ==
    /\ call.op = "search_and_evaluate"
    /\ pick_in.op = "search_and_evaluate"
    /\ _get_cache_key(pick_in.query) = _get_cache_key(call.query)
    /\ pick_in.query # call.query
    /\ pick_in.throttled
    /\ pick_in.use_vision
    /\ call.args.use_vision
    /\ ~call.args.throttled
    /\ ~pick_out.searched
    /\ pick_out.scored = 0
    /\ pick_out.results # <<>>
    /\ \A i \in 1..Len(pick_out.results) : pick_out.results[i].score = neutral_score
    /\ \E i \in 1..Len(found[_get_cache_key(call.query)]) :
           found[_get_cache_key(call.query)][i].vision.score = 10
    /\ cache.now - cache.files[_get_cache_key(call.query)].cached_at
           = default_max_age_hours

=============================================================================
